---- MODULE Spec2Model ----
(***************************************************************************)
(* A state-machine model of the YouTube analyzer's quota ledger, result    *)
(* cache, entity resolver and paginated fetcher                            *)
(* (src/src/services/youtubeService.ts) and of the competitor benchmark's  *)
(* own fetchers (src/unnamed/part_003).                                    *)
(*                                                                         *)
(* Strings whose content the code inspects (the counter persisted in       *)
(* localStorage, the query typed by the user) are sequences of one-        *)
(* character strings.  localStorage.getItem's null is the empty sequence.  *)
(***************************************************************************)
EXTENDS Integers, Sequences, FiniteSets, TLC

VARIABLES
    today,      \* the day new Date().toDateString() names (a day number)
    now,        \* new Date().getTime(), in milliseconds
    lsDate,     \* localStorage[DATE_KEY]
    lsQuota,    \* localStorage[QUOTA_KEY]
    lsCache,    \* localStorage[CACHE_PREFIX + key], per cache key
    lastOp,     \* the ledger or cache operation that ran last, with its result
    charged,    \* the sum of the costs charged since the last date rollover
    sess,       \* per browser session: the position inside trackQuota
    putLog,     \* per cache key: when setCache last stored it, and what
    run,        \* the pipeline run of the page: its locals and where it awaits
    reqs,       \* the upstream requests the run issued, oldest first
    tasks,      \* handleCompare's parallel fetches: where each one awaits
    page,       \* what the page shows: data (YouTubeAnalyzer), result (CompetitorBenchmark)
    before,     \* what the page showed and the cache held when the run was triggered
    calc,       \* the analytics computed from a fetched video list, per consumer
    lsSaved,    \* localStorage['yt_saved_videos']
    ui,         \* per browser session: the useState values of YouTubeAnalyzer
    wanted      \* the videos saved and not unsaved since, over all sessions

ledgerVars == <<today, lsDate, lsQuota, charged>>
vars ==
    <<today, now, lsDate, lsQuota, lsCache, lastOp, charged, sess, putLog, run, reqs, tasks,
      page, before, calc, lsSaved, ui, wanted>>

(***************************************************************************)
(* Bounds of the model.                                                    *)
(***************************************************************************)
MaxDay == 3
MaxCharges == 4
MaxSpans == 2

(***************************************************************************)
(* Number <-> string conversions of the persisted counter.                 *)
(***************************************************************************)
Digits == <<"0", "1", "2", "3", "4", "5", "6", "7", "8", "9">>

DigitValue(c) == CHOOSE d \in 0..9 : Digits[d + 1] = c

IsDigit(c) == \E d \in 0..9 : Digits[d + 1] = c

RECURSIVE ToStr(_)
\* Number.prototype.toString() of a non-negative integer
ToStr(n) == IF n < 10 THEN <<Digits[n + 1]>>
            ELSE ToStr(n \div 10) \o <<Digits[(n % 10) + 1]>>

RECURSIVE ParseDigits(_, _)
ParseDigits(s, acc) ==
    IF s = <<>> \/ ~IsDigit(Head(s)) THEN acc
    ELSE ParseDigits(Tail(s), acc * 10 + DigitValue(Head(s)))

\* parseInt(s, 10) of a string that starts with a digit: the value of its
\* longest prefix of digits
ParseInt(s) == ParseDigits(s, 0)

\* x || '0' for a string or null x
OrZero(s) == IF s = <<>> THEN <<"0">> ELSE s

\* new Date().toDateString(): one string per calendar day
ToDateString(d) == <<"day", d>>

(***************************************************************************)
(* Quota ledger: getQuotaUsage and trackQuota as the single-threaded page  *)
(* runs them (no await inside: each call is one step of the page).         *)
(***************************************************************************)
\* a plausible slip: the date is refreshed but the stale counter is kept
GetQuotaUsageKeepsStale(date, quota, day) ==
    IF date # ToDateString(day)
    THEN [date |-> ToDateString(day), quota |-> quota, result |-> 0]
    ELSE [date |-> date, quota |-> quota, result |-> ParseInt(OrZero(quota))]

GetQuotaUsage(date, quota, day) ==
    IF date # ToDateString(day)
    THEN [date |-> ToDateString(day), quota |-> <<"0">>, result |-> 0]
    ELSE [date |-> date, quota |-> quota, result |-> ParseInt(OrZero(quota))]

TrackQuota(date, quota, day, cost) ==
    LET g == GetQuotaUsage(date, quota, day)
        newest == g.result + cost
    IN  [date |-> g.date, quota |-> ToStr(newest)]

\* the endpoint costs the service charges
COST_LIST == 1
COST_SEARCH == 100
Costs == {COST_LIST, COST_SEARCH}

\* null and undefined
Null == [kind |-> "null"]

\* no pipeline run was triggered yet
NoRun ==
    [fn |-> "none", pc |-> "idle", query |-> <<>>, limit |-> 0, mode |-> "none",
     playlistId |-> <<>>, handle |-> <<>>, channelId |-> "", uploads |-> FALSE,
     videoIds |-> 0, pageToken |-> FALSE, stats |-> FALSE, i |-> 0, allItems |-> 0,
     outcome |-> "pending", result |-> Null, storeFault |-> "none"]

\* useState<AnalyzedData | null>(null), useState<ComparisonResult | null>(null)
\* abortAt: how many requests the run had issued when its caller asked to
\* abort it; -1 while nobody asked
NoPage == [data |-> Null, result |-> Null, abortAt |-> -1]

NoCalc == [op |-> "none"]

\* localStorage.getItem(key) of a key never written: null
NoItem == [kind |-> "null"]

\* the sessions before their page is rendered
NoUi == [s \in {1, 2} |-> [mounted |-> FALSE]]

NoSnapshot == [data |-> Null, result |-> Null, cache |-> <<>>]

NoSess == [s \in {1, 2} |-> [pc |-> "idle", cost |-> 0, current |-> 0]]

InitLedger ==
    /\ today = 1
    /\ lsSaved = NoItem
    /\ ui = NoUi
    /\ wanted = {}
    /\ now = 0
    /\ lsDate = <<>>
    /\ lsQuota = <<>>
    /\ lsCache = <<>>
    /\ lastOp = [op |-> "none"]
    /\ charged = 0
    /\ sess = NoSess
    /\ putLog = <<>>
    /\ run = NoRun
    /\ reqs = <<>>
    /\ tasks = <<>>
    /\ page = NoPage
    /\ before = NoSnapshot
    /\ calc = NoCalc

\* chargeQuota(cost)
ChargeQuota(cost) ==
    /\ charged + cost <= MaxCharges * COST_SEARCH
    /\ LET t == TrackQuota(lsDate, lsQuota, today, cost)
       IN  /\ lsDate' = t.date
           /\ lsQuota' = t.quota
    /\ charged' = charged + cost
    /\ lastOp' = [op |-> "charge", cost |-> cost, staleBefore |-> lsDate # ToDateString(today)]
    /\ UNCHANGED <<lsSaved, ui, wanted, today, now, lsCache, sess, putLog, run, reqs, tasks, page, before, calc>>

\* currentUsage()
CurrentUsage ==
    /\ LET g == GetQuotaUsage(lsDate, lsQuota, today)
       IN  /\ lsDate' = g.date
           /\ lsQuota' = g.quota
           /\ lastOp' = [op |-> "read", result |-> g.result, staleBefore |-> lsDate # ToDateString(today)]
    /\ UNCHANGED <<lsSaved, ui, wanted, today, now, lsCache, charged, sess, putLog, run, reqs, tasks, page, before, calc>>

\* midnight passes: nothing was charged yet on the new day
NextDay ==
    /\ today < MaxDay
    /\ today' = today + 1
    /\ charged' = 0
    /\ lastOp' = [op |-> "rollover"]
    /\ UNCHANGED <<lsSaved, ui, wanted, now, lsDate, lsQuota, lsCache, sess, putLog, run, reqs, tasks, page, before, calc>>

NextLedger ==
    \/ \E cost \in Costs : ChargeQuota(cost)
    \/ CurrentUsage
    \/ NextDay

SpecLedger == InitLedger /\ [][NextLedger]_vars

(* C2: after any sequence of chargeQuota and currentUsage calls, the        *)
(* persisted counter and the value currentUsage() returns are the sum of    *)
(* the costs charged since the most recent date rollover; the first read    *)
(* or charge on a date other than the stored one restarts the counter from  *)
(* 0 (a read leaves "0", a charge leaves exactly its own cost).             *)
C2_UsageIsSumSinceRollover ==
    lastOp.op \in {"charge", "read"} =>
        /\ lsDate = ToDateString(today)
        /\ ParseInt(lsQuota) = charged
        /\ lsQuota = ToStr(charged)
        /\ (lastOp.op = "read" => lastOp.result = charged)
        /\ (lastOp.staleBefore /\ lastOp.op = "read" => lsQuota = <<"0">>)
        /\ (lastOp.staleBefore /\ lastOp.op = "charge" => ParseInt(lsQuota) = lastOp.cost)

\* a read on a new day, after charges on the day before
C2_Witness ==
    /\ lastOp.op = "read"
    /\ lastOp.staleBefore
    /\ today > 1
    /\ lastOp.result = 0

(***************************************************************************)
(* Two browser sessions (tabs) on one localStorage.  Inside a session a    *)
(* trackQuota call runs to completion before anything else of that page    *)
(* runs, so a session has one call in progress at most; between sessions   *)
(* nothing orders the storage operations of two calls, so each getItem and *)
(* setItem of trackQuota/getQuotaUsage is a step of its own.               *)
(***************************************************************************)
Sessions == {1, 2}

\* trackQuota(cost) is called by a run of session s
BeginTrackQuota(s, cost) ==
    /\ sess[s].pc = "idle"
    /\ lastOp.op = "calls"
    /\ lastOp.n < MaxCharges
    /\ sess' = [sess EXCEPT ![s] = [pc |-> "getDate", cost |-> cost, current |-> 0]]
    /\ lastOp' = [op |-> "calls", n |-> lastOp.n + 1]
    /\ UNCHANGED <<lsSaved, ui, wanted, today, now, lsDate, lsQuota, lsCache, charged, putLog, run, reqs, tasks, page, before, calc>>

\* const savedDate = localStorage.getItem(DATE_KEY); if (savedDate !== today)
GetItemDate(s) ==
    /\ sess[s].pc = "getDate"
    /\ sess' = [sess EXCEPT ![s].pc =
                    IF lsDate # ToDateString(today) THEN "setDate" ELSE "getQuota"]
    /\ UNCHANGED <<lsSaved, ui, wanted, today, now, lsDate, lsQuota, lsCache, lastOp, charged, putLog, run, reqs, tasks, page, before, calc>>

\* localStorage.setItem(DATE_KEY, today)
SetItemDate(s) ==
    /\ sess[s].pc = "setDate"
    /\ lsDate' = ToDateString(today)
    /\ sess' = [sess EXCEPT ![s].pc = "setQuotaZero"]
    /\ UNCHANGED <<lsSaved, ui, wanted, today, now, lsQuota, lsCache, lastOp, charged, putLog, run, reqs, tasks, page, before, calc>>

\* localStorage.setItem(QUOTA_KEY, '0'); return 0
SetItemQuotaZero(s) ==
    /\ sess[s].pc = "setQuotaZero"
    /\ lsQuota' = <<"0">>
    /\ sess' = [sess EXCEPT ![s].pc = "setQuota", ![s].current = 0]
    /\ UNCHANGED <<lsSaved, ui, wanted, today, now, lsDate, lsCache, lastOp, charged, putLog, run, reqs, tasks, page, before, calc>>

\* return parseInt(localStorage.getItem(QUOTA_KEY) || '0', 10)
GetItemQuota(s) ==
    /\ sess[s].pc = "getQuota"
    /\ sess' = [sess EXCEPT ![s].pc = "setQuota",
                            ![s].current = ParseInt(OrZero(lsQuota))]
    /\ UNCHANGED <<lsSaved, ui, wanted, today, now, lsDate, lsQuota, lsCache, lastOp, charged, putLog, run, reqs, tasks, page, before, calc>>

\* localStorage.setItem(QUOTA_KEY, (current + cost).toString())
SetItemQuota(s) ==
    /\ sess[s].pc = "setQuota"
    /\ lsQuota' = ToStr(sess[s].current + sess[s].cost)
    /\ charged' = charged + sess[s].cost
    /\ sess' = [sess EXCEPT ![s] = [pc |-> "idle", cost |-> 0, current |-> 0]]
    /\ UNCHANGED <<lsSaved, ui, wanted, today, now, lsDate, lsCache, lastOp, putLog, run, reqs, tasks, page, before, calc>>

InitShared ==
    /\ today = 1
    /\ lsSaved = NoItem
    /\ ui = NoUi
    /\ wanted = {}
    /\ now = 0
    /\ lsDate = <<>>
    /\ lsQuota = <<>>
    /\ lsCache = <<>>
    /\ lastOp = [op |-> "calls", n |-> 0]
    /\ charged = 0
    /\ sess = NoSess
    /\ putLog = <<>>
    /\ run = NoRun
    /\ reqs = <<>>
    /\ tasks = <<>>
    /\ page = NoPage
    /\ before = NoSnapshot
    /\ calc = NoCalc

NextShared ==
    \E s \in Sessions :
        \/ \E cost \in Costs : BeginTrackQuota(s, cost)
        \/ GetItemDate(s)
        \/ SetItemDate(s)
        \/ SetItemQuotaZero(s)
        \/ GetItemQuota(s)
        \/ SetItemQuota(s)

SpecShared == InitShared /\ [][NextShared]_vars

(* C3: no charge is lost: whenever no trackQuota call is in progress, the   *)
(* persisted counter equals the initial counter (0) plus the sum of all     *)
(* costs charged, for every interleaving of the sessions' charges.          *)
C3_NoLostUpdate ==
    (\A s \in Sessions : sess[s].pc = "idle") =>
        ParseInt(OrZero(lsQuota)) = charged

(***************************************************************************)
(* Result cache: getCache and setCache.                                    *)
(***************************************************************************)
CACHE_TTL_MS == 3600000

\* JSON.parse(JSON.stringify(value)) of an AnalyzedData: a Date field
\* (publishedAtDate) comes back as its ISO string, the rest as it was
JSONRoundTrip(v) ==
    IF v.kind = "data" THEN [v EXCEPT !.dates = "string"] ELSE v

RemoveItem(cache, key) == [k \in DOMAIN cache \ {key} |-> cache[k]]

\* a plausible slip: the entry is dropped as soon as its age reaches one hour
GetCacheExpiresAtTTL(cache, key, t) ==
    IF key \notin DOMAIN cache THEN [cache |-> cache, result |-> Null]
    ELSE IF ~cache[key].parses THEN [cache |-> cache, result |-> Null]
    ELSE IF t - cache[key].timestamp >= CACHE_TTL_MS
         THEN [cache |-> RemoveItem(cache, key), result |-> Null]
    ELSE [cache |-> cache, result |-> cache[key].value]

GetCache(cache, key, t) ==
    \* if (!data) return null
    IF key \notin DOMAIN cache THEN [cache |-> cache, result |-> Null]
    \* JSON.parse throws: catch { return null }
    ELSE IF ~cache[key].parses THEN [cache |-> cache, result |-> Null]
    \* if (now - parsed.timestamp > 3600000) { removeItem; return null }
    ELSE IF t - cache[key].timestamp > CACHE_TTL_MS
         THEN [cache |-> RemoveItem(cache, key), result |-> Null]
    ELSE [cache |-> cache, result |-> cache[key].value]

SetCache(cache, key, value, t) ==
    (key :> [parses |-> TRUE, value |-> JSONRoundTrip(value), timestamp |-> t]) @@ cache

\* the instants the clock is observed at: around every multiple of the TTL
Instants == {a * CACHE_TTL_MS + b : a \in 0..MaxSpans, b \in {-1, 0, 1}} \cap Nat

CacheKeys == {"k1", "k2"}

CacheValues == {[kind |-> "data", videos |-> n, dates |-> "Date"] : n \in {1, 2}}

InitCache ==
    /\ today = 1
    /\ lsSaved = NoItem
    /\ ui = NoUi
    /\ wanted = {}
    /\ now = 0
    /\ lsDate = <<>>
    /\ lsQuota = <<>>
    /\ lsCache = <<>>
    /\ lastOp = [op |-> "none"]
    /\ charged = 0
    /\ sess = NoSess
    /\ putLog = <<>>
    /\ run = NoRun
    /\ reqs = <<>>
    /\ tasks = <<>>
    /\ page = NoPage
    /\ before = NoSnapshot
    /\ calc = NoCalc

\* cachePut(key, value)
CachePut(key, value) ==
    /\ lsCache' = SetCache(lsCache, key, value, now)
    /\ putLog' = (key :> [at |-> now, value |-> value]) @@ putLog
    /\ lastOp' = [op |-> "put", key |-> key]
    /\ UNCHANGED <<lsSaved, ui, wanted, today, now, lsDate, lsQuota, charged, sess, run, reqs, tasks, page, before, calc>>

\* cacheGet(key)
CacheGet(key) ==
    /\ LET g == GetCache(lsCache, key, now)
       IN  /\ lsCache' = g.cache
           /\ lastOp' = [op |-> "get", key |-> key, result |-> g.result]
    /\ UNCHANGED <<lsSaved, ui, wanted, today, now, lsDate, lsQuota, charged, sess, putLog, run, reqs, tasks, page, before, calc>>

\* time passes
Tick ==
    /\ \E t \in Instants : t > now /\ now' = t
    /\ lastOp' = [op |-> "tick"]
    /\ UNCHANGED <<lsSaved, ui, wanted, today, lsDate, lsQuota, lsCache, charged, sess, putLog, run, reqs, tasks, page, before, calc>>

NextCache ==
    \/ \E k \in CacheKeys, v \in CacheValues : CachePut(k, v)
    \/ \E k \in CacheKeys : CacheGet(k)
    \/ Tick

SpecCache == InitCache /\ [][NextCache]_vars

\* the time elapsed since the cachePut of the key the last cacheGet read
ElapsedAtGet == now - putLog[lastOp.key].at

GetOfPutKey == lastOp.op = "get" /\ lastOp.key \in DOMAIN putLog

(* C4 as stated: for every key and every elapsed time d between cachePut    *)
(* and cacheGet, cacheGet returns the stored value only if d < TTL; for     *)
(* every d >= TTL it removes the entry and returns absent.                  *)
C4_ExpiresAtTTL ==
    GetOfPutKey =>
        /\ (lastOp.result # Null => ElapsedAtGet < CACHE_TTL_MS)
        /\ (ElapsedAtGet >= CACHE_TTL_MS =>
                lastOp.result = Null /\ lastOp.key \notin DOMAIN lsCache)

(* C4 as amended: cacheGet returns the stored value (as JSON gives it back) *)
(* exactly when d <= TTL, leaving the entry in the store; for every         *)
(* d > TTL it removes the entry from the store and returns absent.          *)
C4_ExpiresAfterTTL ==
    GetOfPutKey =>
        /\ (ElapsedAtGet <= CACHE_TTL_MS =>
                /\ lastOp.result = JSONRoundTrip(putLog[lastOp.key].value)
                /\ lastOp.key \in DOMAIN lsCache)
        /\ (ElapsedAtGet > CACHE_TTL_MS =>
                lastOp.result = Null /\ lastOp.key \notin DOMAIN lsCache)

\* an entry read exactly one TTL after it was put, and served
C4_Witness ==
    /\ GetOfPutKey
    /\ ElapsedAtGet = CACHE_TTL_MS
    /\ putLog[lastOp.key].at > 0
    /\ lastOp.result # Null

(***************************************************************************)
(* Strings of the query: sequences of one-character strings, with the      *)
(* String.prototype and RegExp operations the resolver applies to them.    *)
(***************************************************************************)
\* \w of a regular expression
WordChars ==
    {"a", "b", "c", "d", "e", "f", "g", "h", "i", "j", "k", "l", "m", "n",
    "o", "p", "q", "r", "s", "t", "u", "v", "w", "x", "y", "z", "A", "B",
    "C", "D", "E", "F", "G", "H", "I", "J", "K", "L", "M", "N", "O", "P",
    "Q", "R", "S", "T", "U", "V", "W", "X", "Y", "Z", "0", "1", "2", "3",
    "4", "5", "6", "7", "8", "9", "_"}

\* [\w.-]
IsHandleChar(c) == c \in WordChars \/ c = "." \/ c = "-"

\* s.startsWith(p)
StartsWith(s, p) == Len(s) >= Len(p) /\ SubSeq(s, 1, Len(p)) = p

\* whether p occurs in s at index i
OccursAt(s, p, i) == i >= 1 /\ i + Len(p) - 1 <= Len(s) /\ SubSeq(s, i, i + Len(p) - 1) = p

\* s.indexOf(p), counted from 1; 0 when p does not occur
IndexOf(s, p) ==
    IF \E i \in 1..Len(s) : OccursAt(s, p, i)
    THEN CHOOSE i \in 1..Len(s) : OccursAt(s, p, i) /\ \A j \in 1..(i - 1) : ~OccursAt(s, p, j)
    ELSE 0

\* s.includes(p)
Includes(s, p) == IndexOf(s, p) # 0

RECURSIVE TrimStart(_)
TrimStart(s) == IF s # <<>> /\ Head(s) = " " THEN TrimStart(Tail(s)) ELSE s

RECURSIVE TrimEnd(_)
TrimEnd(s) == IF s # <<>> /\ s[Len(s)] = " " THEN TrimEnd(SubSeq(s, 1, Len(s) - 1)) ELSE s

\* s.trim()
Trim(s) == TrimEnd(TrimStart(s))

RECURSIVE TakeWhile(_, _)
\* the longest prefix of s whose characters are not in stop
TakeWhile(s, stop) ==
    IF s = <<>> \/ Head(s) \in stop THEN <<>>
    ELSE <<Head(s)>> \o TakeWhile(Tail(s), stop)

RECURSIVE TakeHandleChars(_)
\* the longest prefix of s matching [\w.-]*
TakeHandleChars(s) ==
    IF s = <<>> \/ ~IsHandleChar(Head(s)) THEN <<>>
    ELSE <<Head(s)>> \o TakeHandleChars(Tail(s))

\* s from index i to its end
From(s, i) == SubSeq(s, i, Len(s))

\* the text after the last "/" of s (parts[parts.length - 1] of s.split('/'))
LastSegment(s) ==
    IF \E i \in 1..Len(s) : s[i] = "/"
    THEN From(s, 1 + CHOOSE i \in 1..Len(s) : s[i] = "/" /\ \A j \in (i + 1)..Len(s) : s[j] # "/")
    ELSE s

STR_LIST == <<"l", "i", "s", "t", "=">>
STR_YT_AT == <<"y", "o", "u", "t", "u", "b", "e", ".", "c", "o", "m", "/", "@">>
STR_YT_CHANNEL == <<"y", "o", "u", "t", "u", "b", "e", ".", "c", "o", "m", "/", "c", "h", "a", "n", "n", "e", "l", "/">>
STR_YT_C == <<"y", "o", "u", "t", "u", "b", "e", ".", "c", "o", "m", "/", "c", "/">>
STR_YT_USER == <<"y", "o", "u", "t", "u", "b", "e", ".", "c", "o", "m", "/", "u", "s", "e", "r", "/">>
STR_SL_AT == <<"/", "@">>
STR_SL_CHANNEL == <<"/", "c", "h", "a", "n", "n", "e", "l", "/">>
STR_SL_C == <<"/", "c", "/">>
STR_SL_USER == <<"/", "u", "s", "e", "r", "/">>
STR_UC == <<"U", "C">>

\* whether /[&?]list=([^&]+)/ matches s at index i
PlaylistMatchAt(s, i) ==
    /\ i >= 1 /\ i <= Len(s)
    /\ s[i] \in {"&", "?"}
    /\ OccursAt(s, STR_LIST, i + 1)
    /\ i + 6 <= Len(s)
    /\ s[i + 6] # "&"

\* cleanQuery.match(/[&?]list=([^&]+)/): the capture group of the leftmost
\* match, or the empty sequence when there is none
PlaylistMatch(s) ==
    IF \E i \in 1..Len(s) : PlaylistMatchAt(s, i)
    THEN LET i == CHOOSE i \in 1..Len(s) :
                    PlaylistMatchAt(s, i) /\ \A j \in 1..(i - 1) : ~PlaylistMatchAt(s, j)
         IN  TakeWhile(From(s, i + 6), {"&"})
    ELSE <<>>

\* /^@[\w.-]+$/.test(s)
IsDirectHandle(s) ==
    /\ Len(s) >= 2
    /\ s[1] = "@"
    /\ \A i \in 2..Len(s) : IsHandleChar(s[i])

IsChannelHandle(query) ==
    LET trimmed == Trim(query)
    IN  \/ IsDirectHandle(trimmed)
        \/ Includes(trimmed, STR_YT_AT)
        \/ Includes(trimmed, STR_YT_CHANNEL)
        \/ Includes(trimmed, STR_YT_C)
        \/ Includes(trimmed, STR_YT_USER)

\* trimmed.match(/@([\w.-]+)/): the capture of the leftmost match, or <<>>
AtHandleMatch(s) ==
    LET hit(i) == s[i] = "@" /\ i < Len(s) /\ IsHandleChar(s[i + 1])
    IN  IF \E i \in 1..Len(s) : hit(i)
        THEN LET i == CHOOSE i \in 1..Len(s) : hit(i) /\ \A j \in 1..(i - 1) : ~hit(j)
             IN  TakeHandleChars(From(s, i + 1))
        ELSE <<>>

ExtractHandle(query) ==
    LET trimmed == Trim(query)
    IN  IF IsDirectHandle(trimmed) THEN trimmed
        ELSE IF Includes(trimmed, STR_SL_AT)
             THEN IF AtHandleMatch(trimmed) # <<>>
                  THEN <<"@">> \o AtHandleMatch(trimmed)
                  ELSE trimmed
        ELSE IF Includes(trimmed, STR_SL_CHANNEL)
             \* trimmed.split('/channel/')[1].split(/[?&/]/)[0]
             THEN TakeWhile(From(trimmed, IndexOf(trimmed, STR_SL_CHANNEL) + Len(STR_SL_CHANNEL)),
                            {"?", "&", "/"})
        ELSE IF Includes(trimmed, STR_SL_C) \/ Includes(trimmed, STR_SL_USER)
             THEN TakeWhile(LastSegment(trimmed), {"?", "&"})
        ELSE trimmed

\* handle.startsWith('UC') && handle.length === 24
IsCanonicalChannelId(handle) == StartsWith(handle, STR_UC) /\ Len(handle) = 24

\* handle.startsWith('@') ? handle.substring(1) : handle
CleanHandle(handle) == IF StartsWith(handle, <<"@">>) THEN Tail(handle) ELSE handle

(***************************************************************************)
(* Paginated fetcher: fetchYouTubeData and fetchTrendingVideos.  A run is  *)
(* a chain of code segments, each ending at an awaited fetch; the segment  *)
(* that follows a response runs to the next fetch (or to the end) without  *)
(* interruption.  Segments are operators on a bundle of the state they     *)
(* read and write; an action commits the bundle its segment returns.       *)
(***************************************************************************)
PAGE_MAX == 50
CHUNK_SIZE == 50
PartialPage == 30

Min(a, b) == IF a < b THEN a ELSE b

Pending == [kind |-> "pending", items |-> 0, next |-> FALSE]

\* a plausible slip: every page is asked at the full page size
MaxResultsFullPage(r) == PAGE_MAX

\* const maxResults = Math.min(limit - videoIds.length, 50)
MaxResults(r) == Min(r.limit - r.videoIds, PAGE_MAX)

\* a plausible slip: all the ids not yet hydrated go into one request
AskedAllRemaining(r, site) ==
    CASE site \in {"playlistPage", "searchPage", "uploadsPage", "channelVideosSearch",
                   "trendingPage"} -> MaxResults(r)
      [] site = "detailBatch" -> r.videoIds - r.i
      [] OTHER -> 1

\* how many items the request issued at a site asks for: maxResults of a
\* page, the ids of a chunk (videoIds.slice(i, i + chunkSize)), one entity
Asked(r, site) ==
    CASE site \in {"playlistPage", "searchPage", "uploadsPage", "channelVideosSearch",
                   "trendingPage"} -> MaxResults(r)
      [] site = "detailBatch" -> Min(CHUNK_SIZE, r.videoIds - r.i)
      [] OTHER -> 1

\* fetch() rejects (network) or res.json() rejects (the body is not JSON)
Throwing == {"network_error", "parse_error"}

\* how a request can fail; a non-2xx answer carries a JSON error body, which
\* res.json() parses: the data has no items
FailureKinds == Throwing \cup {"http_error"}

Failures == {[kind |-> k, items |-> 0, next |-> FALSE] : k \in FailureKinds}

\* the answers to a page request for maxResults items
PageResponses(maxResults) ==
    {[kind |-> "ok", items |-> n, noId |-> 0, next |-> b] :
        n \in {0, maxResults} \cup {k \in {PartialPage} : k < maxResults}, b \in BOOLEAN}
    \cup Failures

\* a page none of whose items carries a video id
IdLessPages(maxResults) ==
    {[kind |-> "ok", items |-> maxResults, noId |-> maxResults, next |-> b] : b \in BOOLEAN}

\* the ids a walk takes from a page: fetchChannelVideos maps the items to
\* their video id and drops the empty ones (.filter(Boolean)); the walks
\* of fetchYouTubeData and fetchTrendingVideos keep one entry per item
Collected(resp, site) ==
    IF site \in {"uploadsPage", "channelVideosSearch"} THEN resp.items - resp.noId
    ELSE resp.items

\* the answers to a lookup of one entity (a channel by id or handle, a
\* channel search with maxResults=1)
LookupResponses ==
    {[kind |-> "ok", items |-> n, next |-> FALSE] : n \in {0, 1}} \cup Failures

\* the answers to a list-by-id request for chunk ids: upstream leaves out
\* the ids it does not serve (deleted or private videos)
DetailResponses(chunk) ==
    {[kind |-> "ok", items |-> n, next |-> FALSE] : n \in {chunk, chunk - 1}} \cup Failures

\* whether localStorage serves the call or throws (storage disabled for the
\* page; quota exceeded on writing a result)
ReadOutcomes == {"ok", "unavailable"}
WriteOutcomes == {"ok", "full"}

Bundle ==
    [run |-> run, reqs |-> reqs, lsDate |-> lsDate, lsQuota |-> lsQuota, lsCache |-> lsCache,
     page |-> page, before |-> before]

\* the page and the cache as a handler finds them when it is triggered
Snapshot == [data |-> page.data, result |-> page.result, cache |-> lsCache]

\* handleAnalyze / handleTrending after their await: const result = await
\* fetch...(); setData(result); a rejection only shows a toast
HandlerResumes(m) ==
    IF m.run.pc = "done" /\ m.run.outcome = "ok"
    THEN [m EXCEPT !.page.data = m.run.result]
    ELSE m

Commit(m) ==
    LET h == HandlerResumes(m)
    IN  /\ run' = h.run
        /\ reqs' = h.reqs
        /\ lsDate' = h.lsDate
        /\ lsQuota' = h.lsQuota
        /\ lsCache' = h.lsCache
        /\ page' = h.page
        /\ before' = h.before
        /\ UNCHANGED <<lsSaved, ui, wanted, today, now, lastOp, charged, sess, putLog, tasks, calc>>

\* the response to the request in flight arrives
Answer(m, resp) == [m EXCEPT !.reqs[Len(m.reqs)].resp = resp]

\* trackQuota(cost); const res = await fetch(...)
ChargedFetch(m, ep, site, cost) ==
    LET t == TrackQuota(m.lsDate, m.lsQuota, today, cost)
    IN  [m EXCEPT !.lsDate = t.date,
                  !.lsQuota = t.quota,
                  !.reqs = Append(@, [ep |-> ep, site |-> site, charge |-> cost,
                                      n |-> Asked(m.run, site), offset |-> m.run.i,
                                      resp |-> Pending]),
                  !.run.pc = site]

\* the run rejects
Throw(m, err) == [m EXCEPT !.run.pc = "done", !.run.outcome = err]

\* a plausible slip: the count is left out of the key
CacheKeyWithoutLimit(cleanQuery, limit) == <<cleanQuery, 10>>

\* const cacheKey = `analysis_${cleanQuery}_${limit}`
CacheKey(cleanQuery, limit) == <<cleanQuery, limit>>

\* const finalResult = {...}; setCache(cacheKey, finalResult); return finalResult
FinishAnalyze(m, w) ==
    LET finalResult == [kind |-> "data", videos |-> m.run.allItems, dates |-> "Date"]
    IN  IF w = "full"
        THEN [Throw(m, "Storage") EXCEPT !.run.storeFault = "setCache"]
        ELSE [m EXCEPT !.lsCache = SetCache(@, CacheKey(m.run.query, m.run.limit), finalResult, now),
                       !.run.pc = "done",
                       !.run.outcome = "ok",
                       !.run.result = finalResult]

\* return { videos, channelTitle, totalFound }
FinishTrending(m) ==
    [m EXCEPT !.run.pc = "done",
              !.run.outcome = "ok",
              !.run.result = [kind |-> "data", videos |-> m.run.allItems, dates |-> "Date"]]

\* fetchVideoDetails: for (let i = 0; i < videoIds.length; i += chunkSize)
DetailsLoop(m, w) ==
    IF m.run.i < m.run.videoIds
    THEN ChargedFetch(m, "videos", "detailBatch", COST_LIST)
    ELSE IF m.run.fn = "fetchTrendingVideos" THEN FinishTrending(m)
    ELSE FinishAnalyze(m, w)

\* if (!videoIds.length) throw ...; if (channelId) stats = await fetchChannelInfo(...)
AfterWalk(m, w) ==
    IF m.run.videoIds = 0 THEN Throw(m, "NotFound")
    ELSE IF m.run.channelId # "" THEN ChargedFetch(m, "channels", "channelInfo", COST_LIST)
    ELSE DetailsLoop(m, w)

\* if (!channelId || !videoIds.length) throw new Error(`Channel ... tidak ditemukan`)
ChannelAfter(m, w) ==
    IF m.run.channelId = "" \/ m.run.videoIds = 0 THEN Throw(m, "ChannelNotFound")
    ELSE AfterWalk(m, w)

\* what follows the page loop of a site
AfterLoop(m, site, w) ==
    CASE site \in {"playlistPage", "searchPage"} -> AfterWalk(m, w)
      [] site \in {"uploadsPage", "channelVideosSearch"} -> ChannelAfter(m, w)
      [] site = "trendingPage" -> DetailsLoop(m, w)

\* a plausible slip: the loop test is <= and asks for one page too many
PageLoopOnePageMore(m, ep, site, cost, w) ==
    IF m.run.videoIds <= m.run.limit
    THEN ChargedFetch(m, ep, site, cost)
    ELSE AfterLoop(m, site, w)

\* while (videoIds.length < limit) { trackQuota(cost); ... await fetch(page)
PageLoop(m, ep, site, cost, w) ==
    IF m.run.videoIds < m.run.limit
    THEN ChargedFetch(m, ep, site, cost)
    ELSE AfterLoop(m, site, w)

\* a plausible slip: a page without items is taken for a failure of the run
PageResponseThrowsOnEmpty(m, resp, ep, site, cost, w) ==
    IF resp.kind \in Throwing \/ resp.kind = "http_error" \/ resp.items = 0
    THEN Throw(m, "Transport")
    ELSE LET m1 == [m EXCEPT !.run.videoIds = @ + Collected(resp, site),
                              !.run.pageToken = resp.next]
         IN  IF ~resp.next THEN Throw(m1, "Transport") ELSE PageLoop(m1, ep, site, cost, w)

\* const data = await res.json(); if (!data.items?.length) break;
\* videoIds = [...videoIds, ...ids]; pageToken = data.nextPageToken;
\* if (!pageToken) break;
PageResponse(m, resp, ep, site, cost, w) ==
    IF resp.kind \in Throwing THEN Throw(m, "Transport")
    ELSE IF resp.kind = "http_error" \/ resp.items = 0 THEN AfterLoop(m, site, w)
    ELSE LET m1 == [m EXCEPT !.run.videoIds = @ + Collected(resp, site),
                              !.run.pageToken = resp.next]
         IN  IF ~resp.next THEN AfterLoop(m1, site, w) ELSE PageLoop(m1, ep, site, cost, w)

\* fetchChannelVideos: trackQuota(1); await fetch(channels?part=contentDetails&id=)
StartChannelVideos(m) == ChargedFetch(m, "channels", "uploadsLookup", COST_LIST)

\* resolveChannelId: trackQuota(1); await fetch(channels?forHandle=)
StartResolve(m) == ChargedFetch(m, "channels", "handleLookup", COST_LIST)

\* a plausible slip: a channel-looking path is looked at before list=
ResolveModeChannelFirst(cleanQuery) ==
    IF IsChannelHandle(cleanQuery) THEN "channel"
    ELSE IF PlaylistMatch(cleanQuery) # <<>> THEN "playlist"
    ELSE "search"

\* the branch fetchYouTubeData takes for a query
ResolveMode(cleanQuery) ==
    IF PlaylistMatch(cleanQuery) # <<>> THEN "playlist"
    ELSE IF IsChannelHandle(cleanQuery) THEN "channel"
    ELSE "search"

\* fetchYouTubeData up to its first await (or its return of a cached result)
StartAnalyze(m, query, limit, r, w) ==
    LET cleanQuery == Trim(query)
        g == GetCache(m.lsCache, CacheKey(cleanQuery, limit), now)
        m0 == [m EXCEPT !.run = [NoRun EXCEPT !.fn = "fetchYouTubeData",
                                              !.query = cleanQuery,
                                              !.limit = limit],
                        !.reqs = <<>>]
        m1 == [m0 EXCEPT !.lsCache = g.cache]
        mode == ResolveMode(cleanQuery)
        handle == ExtractHandle(cleanQuery)
    IN  IF r = "unavailable"
        THEN [Throw(m0, "Storage") EXCEPT !.run.storeFault = "getCache"]
        ELSE IF g.result # Null
        THEN [m1 EXCEPT !.run.pc = "done", !.run.outcome = "ok", !.run.result = g.result,
                        !.run.mode = "cached"]
        ELSE IF mode = "playlist"
        THEN PageLoop([m1 EXCEPT !.run.mode = mode,
                                 !.run.playlistId = PlaylistMatch(cleanQuery)],
                      "playlistItems", "playlistPage", COST_LIST, w)
        ELSE IF mode = "channel"
        THEN IF IsCanonicalChannelId(handle)
             THEN StartChannelVideos([m1 EXCEPT !.run.mode = mode,
                                                !.run.handle = handle,
                                                !.run.channelId = "canonical"])
             ELSE StartResolve([m1 EXCEPT !.run.mode = mode, !.run.handle = handle])
        ELSE PageLoop([m1 EXCEPT !.run.mode = mode], "search", "searchPage", COST_SEARCH, w)

\* fetchTrendingVideos up to its first await
StartTrending(m, limit, r) ==
    LET m0 == [m EXCEPT !.run = [NoRun EXCEPT !.fn = "fetchTrendingVideos",
                                              !.limit = limit,
                                              !.mode = "trending"],
                        !.reqs = <<>>]
    IN  IF r = "unavailable"
        THEN [Throw(m0, "Storage") EXCEPT !.run.storeFault = "trackQuota"]
        ELSE PageLoop(m0, "videos", "trendingPage", COST_LIST, "ok")

\* resolveChannelId, after the handle lookup: an item resolves the channel;
\* no item, or a lookup that threw (caught and logged), falls back to search
HandleLookupResponse(m, resp) ==
    IF resp.kind = "ok" /\ resp.items >= 1
    THEN StartChannelVideos([m EXCEPT !.run.channelId = "resolved"])
    ELSE ChargedFetch(m, "search", "channelSearch", COST_SEARCH)

\* resolveChannelId, after the fallback search, and lines 338-350 of the caller
ChannelSearchResponse(m, resp, w) ==
    IF resp.kind \in Throwing THEN Throw(m, "Transport")
    ELSE IF resp.kind = "ok" /\ resp.items >= 1
    THEN StartChannelVideos([m EXCEPT !.run.channelId = "resolved"])
    ELSE ChannelAfter(m, w)

\* fetchChannelVideos, after the lookup of the uploads playlist
UploadsLookupResponse(m, resp, w) ==
    IF resp.kind \in Throwing THEN Throw(m, "Transport")
    ELSE IF resp.kind = "ok" /\ resp.items >= 1
    THEN PageLoop([m EXCEPT !.run.uploads = TRUE], "playlistItems", "uploadsPage", COST_LIST, w)
    ELSE PageLoop(m, "search", "channelVideosSearch", COST_SEARCH, w)

\* fetchChannelInfo, after its request, and the call of fetchVideoDetails
ChannelInfoResponse(m, resp, w) ==
    IF resp.kind \in Throwing THEN Throw(m, "Transport")
    ELSE DetailsLoop([m EXCEPT !.run.stats = (resp.kind = "ok" /\ resp.items >= 1)], w)

\* fetchVideoDetails: if (vData.items) allItems = [...allItems, ...vData.items]
DetailBatchResponse(m, resp, w) ==
    IF resp.kind \in Throwing THEN Throw(m, "Transport")
    ELSE DetailsLoop([m EXCEPT !.run.allItems = @ + (IF resp.kind = "ok" THEN resp.items ELSE 0),
                               !.run.i = @ + CHUNK_SIZE], w)

(***************************************************************************)
(* The actions of a run.                                                   *)
(***************************************************************************)
QUERY_KEYWORD == <<"c", "a", "t", "s">>
QUERY_HANDLE == <<"@", "a", "b">>
QUERY_CHANNEL_URL == <<"y", "o", "u", "t", "u", "b", "e", ".", "c", "o", "m", "/", "c", "h", "a", "n", "n", "e", "l", "/", "U", "C", "0", "1", "2", "3", "4", "5", "6", "7", "8", "9", "0", "1", "2", "3", "4", "5", "6", "7", "8", "9", "0", "1">>
QUERY_PLAYLIST_URL == <<"h", "t", "t", "p", "s", ":", "/", "/", "x", ".", "c", "o", "m", "/", "l", "i", "s", "t", "?", "v", "=", "a", "b", "c", "&", "l", "i", "s", "t", "=", "P", "L", "1", "2", "3">>

SampleQueries == {QUERY_KEYWORD, QUERY_HANDLE, QUERY_CHANNEL_URL, QUERY_PLAYLIST_URL}

\* FetchLimit values
Limits == {10, 100}

\* what an earlier run of the page can have left under a cache key
EarlierEntries ==
    {[parses |-> p, value |-> [kind |-> "data", videos |-> 10, dates |-> "string"],
      timestamp |-> 0] : p \in BOOLEAN}

Init ==
    /\ today = 1
    /\ lsSaved = NoItem
    /\ ui = NoUi
    /\ wanted = {}
    /\ now = 0
    /\ lsDate = ToDateString(today)
    /\ lsQuota = <<"0">>
    /\ lsCache \in {<<>>} \cup {(<<QUERY_KEYWORD, 10>> :> e) : e \in EarlierEntries}
    /\ lastOp = [op |-> "none"]
    /\ charged = 0
    /\ sess = NoSess
    /\ putLog = <<>>
    /\ run = NoRun
    /\ reqs = <<>>
    /\ tasks = <<>>
    /\ page = NoPage
    /\ before = NoSnapshot
    /\ calc = NoCalc

\* handleAnalyze(searchQuery) calls fetchYouTubeData(apiKey, searchQuery, fetchLimit)
TriggerAnalyze(Q, L) ==
    /\ run.fn = "none"
    /\ \E query \in Q, limit \in L, r \in ReadOutcomes, w \in WriteOutcomes :
           Commit(StartAnalyze([Bundle EXCEPT !.before = Snapshot], query, limit, r, w))

\* handleTrending() calls fetchTrendingVideos(apiKey, fetchLimit, region)
TriggerTrending(L) ==
    /\ run.fn = "none"
    /\ \E limit \in L, r \in ReadOutcomes :
           Commit(StartTrending([Bundle EXCEPT !.before = Snapshot], limit, r))

\* the answer to a page request of the walk at site arrives
PageArrives(ep, site, cost) ==
    /\ run.pc = site
    /\ \E resp \in PageResponses(reqs[Len(reqs)].n), w \in WriteOutcomes :
           Commit(PageResponse(Answer(Bundle, resp), resp, ep, site, cost, w))

PlaylistPage == PageArrives("playlistItems", "playlistPage", COST_LIST)

SearchPage == PageArrives("search", "searchPage", COST_SEARCH)

UploadsPage == PageArrives("playlistItems", "uploadsPage", COST_LIST)

ChannelVideosSearch == PageArrives("search", "channelVideosSearch", COST_SEARCH)

TrendingPage == PageArrives("videos", "trendingPage", COST_LIST)

HandleLookup ==
    /\ run.pc = "handleLookup"
    /\ \E resp \in LookupResponses : Commit(HandleLookupResponse(Answer(Bundle, resp), resp))

ChannelSearch ==
    /\ run.pc = "channelSearch"
    /\ \E resp \in LookupResponses, w \in WriteOutcomes :
           Commit(ChannelSearchResponse(Answer(Bundle, resp), resp, w))

UploadsLookup ==
    /\ run.pc = "uploadsLookup"
    /\ \E resp \in LookupResponses, w \in WriteOutcomes :
           Commit(UploadsLookupResponse(Answer(Bundle, resp), resp, w))

ChannelInfo ==
    /\ run.pc = "channelInfo"
    /\ \E resp \in LookupResponses, w \in WriteOutcomes :
           Commit(ChannelInfoResponse(Answer(Bundle, resp), resp, w))

DetailBatch ==
    /\ run.pc = "detailBatch"
    /\ \E resp \in DetailResponses(reqs[Len(reqs)].n), w \in WriteOutcomes :
           Commit(DetailBatchResponse(Answer(Bundle, resp), resp, w))

(***************************************************************************)
(* Competitor benchmark: handleCompare with its own resolveChannelId and   *)
(* fetchChannelVideos (src/unnamed/part_003), which call fetch directly,   *)
(* and the service's fetchChannelInfo.  The fetches of one Promise.all run *)
(* in parallel: each is a task with its own position.                      *)
(***************************************************************************)
BENCH_PAGE == 10

STR_YT == <<"y", "o", "u", "t", "u", "b", "e", ".", "c", "o", "m", "/">>

\* the last index at which p occurs in s; 0 when it does not occur
LastIndexOf(s, p) ==
    IF \E i \in 1..Len(s) : OccursAt(s, p, i)
    THEN CHOOSE i \in 1..Len(s) :
             OccursAt(s, p, i) /\ \A j \in (i + 1)..Len(s) : ~OccursAt(s, p, j)
    ELSE 0

\* input.trim().replace(/.*youtube\.com\//g, '').replace(/^@/, '')
BenchClean(input) ==
    LET t == Trim(input)
        j == LastIndexOf(t, STR_YT)
        u == IF j = 0 THEN t ELSE From(t, j + Len(STR_YT))
    IN  IF StartsWith(u, <<"@">>) THEN Tail(u) ELSE u

BenchQueries == {QUERY_HANDLE, QUERY_CHANNEL_URL}

BenchLookupResponses ==
    {[kind |-> "ok", items |-> n, next |-> FALSE] : n \in {0, 1}}
    \cup {[kind |-> "network_error", items |-> 0, next |-> FALSE]}

BenchListResponses ==
    {[kind |-> "ok", items |-> n, next |-> FALSE] : n \in {0, BENCH_PAGE}}
    \cup {[kind |-> "network_error", items |-> 0, next |-> FALSE]}

ResolveTasks == {"resolve1", "resolve2"}
InfoTasks == {"info1", "info2"}
VideoTasks == {"videos1", "videos2"}

BenchBundle ==
    [run |-> run, reqs |-> reqs, lsDate |-> lsDate, lsQuota |-> lsQuota, tasks |-> tasks,
     page |-> page, before |-> before]

BenchCommit(b) ==
    /\ run' = b.run
    /\ reqs' = b.reqs
    /\ lsDate' = b.lsDate
    /\ lsQuota' = b.lsQuota
    /\ tasks' = b.tasks
    /\ page' = b.page
    /\ before' = b.before
    /\ UNCHANGED <<lsSaved, ui, wanted, today, now, lsCache, lastOp, charged, sess, putLog, calc>>

TaskDone(b, t, value) == [b EXCEPT !.tasks[t] = [pc |-> "done", req |-> 0, value |-> value]]

\* the response to task t's request arrives
BenchAnswer(b, t, resp) == [b EXCEPT !.reqs[b.tasks[t].req].resp = resp]

\* await fetch(...) with no trackQuota before it
BenchFetch(b, t, ep, site) ==
    [b EXCEPT !.reqs = Append(@, [ep |-> ep, site |-> site, charge |-> 0,
                                  n |-> IF ep = "channels" THEN 1 ELSE BENCH_PAGE,
                                  resp |-> Pending]),
              !.tasks[t] = [pc |-> site, req |-> Len(b.reqs) + 1, value |-> "none"]]

\* fetchChannelInfo: trackQuota(1); await fetch(channels?part=snippet,statistics,...)
InfoFetch(b, t, r) ==
    IF r = "unavailable" THEN TaskDone(b, t, "rejected")
    ELSE LET q == TrackQuota(b.lsDate, b.lsQuota, today, COST_LIST)
         IN  [b EXCEPT !.lsDate = q.date,
                       !.lsQuota = q.quota,
                       !.reqs = Append(@, [ep |-> "channels", site |-> "channelInfo",
                                           charge |-> COST_LIST, n |-> 1, resp |-> Pending]),
                       !.tasks[t] = [pc |-> "channelInfo", req |-> Len(b.reqs) + 1,
                                     value |-> "none"]]

\* the benchmark's resolveChannelId up to its first await
BenchResolveStart(b, t, input) ==
    IF IsCanonicalChannelId(BenchClean(input)) THEN TaskDone(b, t, "id")
    ELSE BenchFetch(b, t, "channels", "handleLookup")

\* what handleCompare does when a Promise.all of its tasks settles: the first
\* rejection, or the last fulfilment, resumes it
Settle(b, r) ==
    IF b.run.outcome # "pending" THEN b
    ELSE IF \E t \in DOMAIN b.tasks : b.tasks[t].value = "rejected"
    THEN [b EXCEPT !.run.pc = "done", !.run.outcome = "Transport"]
    ELSE IF \E t \in DOMAIN b.tasks : b.tasks[t].pc # "done" THEN b
    ELSE IF DOMAIN b.tasks = ResolveTasks
    THEN IF \E t \in ResolveTasks : b.tasks[t].value = "null"
         \* if (!id1 || !id2) throw new Error('Channel tidak ditemukan...')
         THEN [b EXCEPT !.run.pc = "done", !.run.outcome = "ChannelNotFound"]
         \* Promise.all([fetchChannelInfo(id1), fetchChannelInfo(id2),
         \*              fetchChannelVideos(id1), fetchChannelVideos(id2)])
         ELSE LET b0 == [b EXCEPT !.run.pc = "fetching",
                                  !.tasks = [t \in InfoTasks \cup VideoTasks |->
                                                [pc |-> "new", req |-> 0, value |-> "none"]]]
                  b1 == InfoFetch(b0, "info1", r)
                  b2 == InfoFetch(b1, "info2", r)
                  b3 == BenchFetch(b2, "videos1", "channels", "uploadsLookup")
                  b4 == BenchFetch(b3, "videos2", "channels", "uploadsLookup")
              IN  IF r = "unavailable"
                  THEN [b4 EXCEPT !.run.pc = "done", !.run.outcome = "Storage",
                                  !.run.storeFault = "trackQuota"]
                  ELSE b4
    \* if (!stats1 || !stats2) throw new Error('Gagal mengambil statistik channel.')
    ELSE IF \E t \in InfoTasks : b.tasks[t].value = "undefined"
    THEN [b EXCEPT !.run.pc = "done", !.run.outcome = "StatsFailed"]
    \* setResult({...})
    ELSE [b EXCEPT !.run.pc = "done", !.run.outcome = "ok",
                   !.run.result = [kind |-> "comparison"],
                   !.page.result = [kind |-> "comparison"]]

\* the benchmark's resolveChannelId after a response: both fetches sit in a
\* try whose catch is empty
BenchResolveResponse(b, t, resp) ==
    IF resp.kind = "ok" /\ resp.items >= 1 THEN TaskDone(b, t, "id")
    ELSE IF b.tasks[t].pc = "handleLookup" THEN BenchFetch(b, t, "search", "channelSearch")
    ELSE TaskDone(b, t, "null")

\* fetchChannelInfo after its response
BenchInfoResponse(b, t, resp) ==
    IF resp.kind \in Throwing THEN TaskDone(b, t, "rejected")
    ELSE IF resp.kind = "ok" /\ resp.items >= 1 THEN TaskDone(b, t, "stats")
    ELSE TaskDone(b, t, "undefined")

\* the benchmark's fetchChannelVideos after a response
BenchVideosResponse(b, t, resp) ==
    IF resp.kind \in Throwing THEN TaskDone(b, t, "rejected")
    ELSE IF resp.kind # "ok" \/ resp.items = 0 THEN TaskDone(b, t, "empty")
    ELSE IF b.tasks[t].pc = "uploadsLookup" THEN BenchFetch(b, t, "playlistItems", "uploadsPage")
    ELSE IF b.tasks[t].pc = "uploadsPage" THEN BenchFetch(b, t, "videos", "detailBatch")
    ELSE TaskDone(b, t, "list")

\* handleCompare up to its first await
TriggerCompare ==
    /\ run.fn = "none"
    /\ \E q1 \in BenchQueries, q2 \in BenchQueries, r \in ReadOutcomes :
           LET b0 == [BenchBundle EXCEPT
                         !.run = [NoRun EXCEPT !.fn = "handleCompare", !.pc = "resolving",
                                               !.mode = "benchmark"],
                         !.reqs = <<>>,
                         !.before = Snapshot,
                         \* setLoading(true); setError(null); setResult(null)
                         !.page.result = Null,
                         !.tasks = [t \in ResolveTasks |->
                                       [pc |-> "new", req |-> 0, value |-> "none"]]]
               b1 == BenchResolveStart(b0, "resolve1", q1)
               b2 == BenchResolveStart(b1, "resolve2", q2)
           IN  BenchCommit(Settle(b2, r))

BenchResolveStep ==
    \E t \in DOMAIN tasks \cap ResolveTasks, r \in ReadOutcomes, resp \in BenchLookupResponses :
        /\ tasks[t].pc \in {"handleLookup", "channelSearch"}
        /\ BenchCommit(Settle(BenchResolveResponse(BenchAnswer(BenchBundle, t, resp), t, resp), r))

BenchInfoStep ==
    \E t \in DOMAIN tasks \cap InfoTasks, resp \in BenchLookupResponses :
        /\ tasks[t].pc = "channelInfo"
        /\ BenchCommit(Settle(BenchInfoResponse(BenchAnswer(BenchBundle, t, resp), t, resp), "ok"))

BenchVideosStep ==
    \E t \in DOMAIN tasks \cap VideoTasks :
        /\ tasks[t].pc \in {"uploadsLookup", "uploadsPage", "detailBatch"}
        /\ \E resp \in (IF tasks[t].pc = "uploadsLookup" THEN BenchLookupResponses
                        ELSE BenchListResponses) :
               BenchCommit(Settle(BenchVideosResponse(BenchAnswer(BenchBundle, t, resp), t, resp), "ok"))


RunStep ==
    \/ PlaylistPage
    \/ SearchPage
    \/ UploadsPage
    \/ ChannelVideosSearch
    \/ TrendingPage
    \/ HandleLookup
    \/ ChannelSearch
    \/ UploadsLookup
    \/ ChannelInfo
    \/ DetailBatch

BenchStep ==
    \/ BenchResolveStep
    \/ BenchInfoStep
    \/ BenchVideosStep

Next ==
    \/ TriggerAnalyze(SampleQueries, Limits)
    \/ TriggerTrending(Limits)
    \/ TriggerCompare
    \/ RunStep
    \/ BenchStep

Spec == Init /\ [][Next]_vars

(***************************************************************************)
(* Properties of the fetcher.                                              *)
(***************************************************************************)
\* the upstream's cost table: search 100 units; list-by-id, playlist-items
\* and channel lookup 1 unit
EndpointCost(ep) == IF ep = "search" THEN 100 ELSE 1

RECURSIVE SumOfCosts(_)
SumOfCosts(log) ==
    IF log = <<>> THEN 0 ELSE EndpointCost(Head(log).ep) + SumOfCosts(Tail(log))

Fetchers == {"fetchYouTubeData", "fetchTrendingVideos"}

FetcherDone == run.fn \in Fetchers /\ run.pc = "done"

PageSites ==
    {"playlistPage", "searchPage", "uploadsPage", "channelVideosSearch", "trendingPage"}

\* the requests of the log issued at one of the sites
At(sites) == {i \in 1..Len(reqs) : reqs[i].site \in sites}

Failed(i) == reqs[i].resp.kind \in FailureKinds

\* upstream said there is nothing more: the last page came without items or
\* without a cursor to a next page
UpstreamExhausted ==
    /\ At(PageSites) # {}
    /\ LET last == CHOOSE i \in At(PageSites) : \A j \in At(PageSites) : j <= i
       IN  /\ reqs[last].resp.kind = "ok"
           /\ reqs[last].resp.items = 0 \/ ~reqs[last].resp.next

(* C1: every upstream request the system issues is preceded by a ledger     *)
(* charge of its endpoint's cost, so the ledger has grown (from 0 here) by  *)
(* exactly the sum of the costs of the requests issued.                     *)
C1_EveryRequestCharged ==
    /\ \A i \in 1..Len(reqs) : reqs[i].charge = EndpointCost(reqs[i].ep)
    /\ ParseInt(lsQuota) = SumOfCosts(reqs)

(* C5: the cache is advisory: a fetch that issued upstream requests, all of *)
(* which succeeded, ends with its result or with NotFound, never with a     *)
(* failure of the cache store.                                              *)
C5_CacheNeverBlocksFetch ==
    (/\ run.fn = "fetchYouTubeData"
     /\ run.pc = "done"
     /\ reqs # <<>>
     /\ \A i \in 1..Len(reqs) : reqs[i].resp.kind = "ok")
    => run.outcome # "Storage"

(* C6: a transport, non-2xx or parse failure on any page request or detail  *)
(* batch aborts the run with an error; a run returns fewer than N items     *)
(* only when upstream was exhausted, never because a page or batch failed.  *)
C6_FailureAbortsRun ==
    FetcherDone =>
        /\ (\E i \in At(PageSites \cup {"detailBatch"}) : Failed(i)) => run.outcome # "ok"
        /\ (run.outcome = "ok" /\ run.mode # "cached" /\ run.result.videos < run.limit)
               => UpstreamExhausted

\* no request of the run failed, the store served every call, and list-by-id
\* returned an item for every id it was asked for
NominalRun ==
    /\ \A i \in 1..Len(reqs) : reqs[i].resp.kind = "ok"
    /\ \A i \in At({"detailBatch"}) : reqs[i].resp.items = reqs[i].n
    /\ run.storeFault = "none"

(* C7: if upstream is exhausted after yielding k ids with 0 < k < N, and    *)
(* nothing fails, the run completes successfully and returns those k items. *)
C7_PartialResultOnExhaustion ==
    (/\ FetcherDone
     /\ run.mode # "cached"
     /\ NominalRun
     /\ UpstreamExhausted
     /\ 0 < run.videoIds /\ run.videoIds < run.limit)
    => /\ run.outcome = "ok"
       /\ run.result.videos = run.videoIds

\* N = 100 asked, upstream yields a full page and a short last one: both are returned
C7_Witness ==
    /\ FetcherDone
    /\ NominalRun
    /\ UpstreamExhausted
    /\ run.limit = 100
    /\ run.videoIds = PAGE_MAX + PartialPage
    /\ Cardinality(At(PageSites)) >= 2
    /\ run.outcome = "ok"
    /\ run.result.videos = PAGE_MAX + PartialPage

(* C8: every fetch entry point fails with NotFound whenever its id walk     *)
(* ended with zero ids collected; no run returns a successful result with   *)
(* an empty video list (stated for runs in which no request and no store    *)
(* call failed).                                                            *)
C8_NotFoundOnZeroIds ==
    (/\ FetcherDone
     /\ run.mode # "cached"
     /\ run.storeFault = "none"
     /\ \A i \in 1..Len(reqs) : reqs[i].resp.kind = "ok")
    => /\ run.videoIds = 0 => run.outcome \in {"NotFound", "ChannelNotFound"}
       /\ run.outcome = "ok" => run.result.videos > 0

(***************************************************************************)
(* Resolution of the query: queries assembled from the pieces that decide   *)
(* it (a channel path, list= after ? and after &, a value, a bare &, a word).*)
(***************************************************************************)
MaxChunks == 3

Chunks ==
    { <<"y", "o", "u", "t", "u", "b", "e", ".", "c", "o", "m", "/", "@", "a", "b">>,
      <<"?", "l", "i", "s", "t", "=">>,
      <<"&", "l", "i", "s", "t", "=">>,
      <<"P", "L", "1">>,
      <<"&">>,
      QUERY_KEYWORD }

RECURSIVE Concats(_)
Concats(n) ==
    IF n = 0 THEN {<<>>}
    ELSE Concats(n - 1) \cup {c \o rest : c \in Chunks, rest \in Concats(n - 1)}

ResolveQueries == Concats(MaxChunks) \ {<<>>}

ResolveLimits == {10}

NextResolve ==
    \/ TriggerAnalyze(ResolveQueries, ResolveLimits)
    \/ TriggerTrending(ResolveLimits)
    \/ RunStep

SpecResolve == Init /\ [][NextResolve]_vars

\* the places of a query where a list parameter with a value begins: list=
\* right after a ? or a &, followed by at least one character that is not &
ListParamStarts(q) ==
    {i \in 1..Len(q) : /\ q[i] \in {"?", "&"}
                       /\ OccursAt(q, STR_LIST, i + 1)
                       /\ i + Len(STR_LIST) + 1 <= Len(q)
                       /\ q[i + Len(STR_LIST) + 1] # "&"}

HasListParam(q) == ListParamStarts(q) # {}

\* the value of the first list parameter: everything up to the next & or the end
ListParamValue(q) ==
    LET i == CHOOSE a \in ListParamStarts(q) : \A b \in ListParamStarts(q) : a <= b
        from == i + Len(STR_LIST) + 1
        ends == {e \in from..Len(q) : /\ \A k \in from..e : q[k] # "&"
                                      /\ e = Len(q) \/ q[e + 1] = "&"}
    IN  SubSeq(q, from, CHOOSE e \in ends : TRUE)

(* C9: if the query contains a playlist-id query parameter, resolution      *)
(* yields PlaylistMode with that id, whatever channel-looking path the      *)
(* query also contains, and no handle lookup or search request is issued.   *)
C9_PlaylistParamWins ==
    (/\ run.fn = "fetchYouTubeData"
     /\ run.mode \notin {"none", "cached"}
     /\ HasListParam(run.query))
    => /\ run.mode = "playlist"
       /\ run.playlistId = ListParamValue(run.query)
       /\ \A i \in 1..Len(reqs) : reqs[i].ep \notin {"channels", "search"}

\* a channel URL that also carries list=: the run walked the playlist to its end
C9_Witness ==
    /\ run.fn = "fetchYouTubeData"
    /\ run.pc = "done"
    /\ run.outcome = "ok"
    /\ IsChannelHandle(run.query)
    /\ HasListParam(run.query)
    /\ run.mode = "playlist"
    /\ run.playlistId = <<"P", "L", "1">>
    /\ reqs # <<>>

(***************************************************************************)
(* Resolution of a handle that is not a canonical channel id.              *)
(***************************************************************************)
Resolving ==
    /\ run.fn = "fetchYouTubeData"
    /\ run.mode = "channel"
    /\ ~IsCanonicalChannelId(run.handle)

Answered(i) == i <= Len(reqs) /\ reqs[i].resp.kind # "pending"

\* a response that arrived and carries no item
CameBackEmpty(i) ==
    Answered(i) /\ reqs[i].resp.kind \in {"ok", "http_error"} /\ reqs[i].resp.items = 0

SearchIssued == Len(reqs) >= 2 /\ reqs[2].site = "channelSearch"

ResolutionNotFound ==
    run.pc = "done" /\ run.outcome = "ChannelNotFound" /\ run.channelId = ""

HandleLookupFirst ==
    /\ reqs # <<>>
    /\ reqs[1].site = "handleLookup"
    /\ reqs[1].ep = "channels"
    /\ \A j \in At({"channelSearch"}) : j = 2

(* C10: for a handle that is not a canonical id the handle lookup is issued *)
(* first, the channel search only if that lookup came back empty, and       *)
(* resolution fails with NotFound exactly when both came back with nothing. *)
C10_SearchOnlyIfLookupEmpty ==
    Resolving =>
        /\ HandleLookupFirst
        /\ SearchIssued => CameBackEmpty(1)
        /\ ResolutionNotFound <=> (run.pc = "done" /\ CameBackEmpty(1) /\ CameBackEmpty(2))

(***************************************************************************)
(* The id walk.                                                            *)
(***************************************************************************)
\* the ids collected by the page requests up to and including request i
RECURSIVE CollectedThrough(_)
CollectedThrough(i) ==
    IF i = 0 THEN 0
    ELSE CollectedThrough(i - 1)
         + (IF reqs[i].site \in PageSites /\ reqs[i].resp.kind = "ok"
            THEN reqs[i].resp.items ELSE 0)

\* the page answered at i was not empty and carried a cursor to a next page
PageGoesOn(i) ==
    reqs[i].resp.kind = "ok" /\ reqs[i].resp.items > 0 /\ reqs[i].resp.next

LaterPage(i) == \E j \in At(PageSites) : j > i

(* C11: within one id walk a further page is requested if and only if fewer *)
(* than N ids have been collected and the previous page was non-empty and   *)
(* carried a next-page cursor; every page request is charged once, before   *)
(* it is issued, and none is issued or charged after that.                  *)
C11_PageRequestedIffMoreToCollect ==
    run.fn \in Fetchers =>
        /\ \A i \in At(PageSites) :
               /\ CollectedThrough(i - 1) < run.limit
               /\ Answered(i) =>
                      (LaterPage(i) <=> (PageGoesOn(i) /\ CollectedThrough(i) < run.limit))
        /\ ParseInt(lsQuota) = SumOfCosts(reqs)

\* a walk that stopped because N was reached although a cursor was offered,
\* after asking for a second page
C11_Witness ==
    /\ FetcherDone
    /\ run.limit = 100
    /\ Cardinality(At(PageSites)) = 2
    /\ \A i \in At(PageSites) : PageGoesOn(i)
    /\ run.videoIds = run.limit

(***************************************************************************)
(* A page that already shows the result of an earlier run.                 *)
(***************************************************************************)
EarlierData == [kind |-> "data", videos |-> 10, dates |-> "Date"]

EarlierComparison == [kind |-> "comparison"]

\* the entry an earlier analysis of another query left in the cache
EarlierEntry ==
    [parses |-> TRUE, value |-> [kind |-> "data", videos |-> 10, dates |-> "string"],
     timestamp |-> 0]

PageLimits == {10}

InitPage ==
    /\ today = 1
    /\ lsSaved = NoItem
    /\ ui = NoUi
    /\ wanted = {}
    /\ now = 0
    /\ lsDate = ToDateString(today)
    /\ lsQuota = <<"0">>
    /\ lsCache \in {<<>>, (<<QUERY_HANDLE, 10>> :> EarlierEntry)}
    /\ lastOp = [op |-> "none"]
    /\ charged = 0
    /\ sess = NoSess
    /\ putLog = <<>>
    /\ run = NoRun
    /\ reqs = <<>>
    /\ tasks = <<>>
    /\ page \in {NoPage, [NoPage EXCEPT !.data = EarlierData, !.result = EarlierComparison]}
    /\ before = NoSnapshot
    /\ calc = NoCalc

\* the caller of a fetch wants to abort it while a page request is awaited:
\* fetchYouTubeData(apiKey, query, limit) and fetchTrendingVideos(apiKey,
\* limit, regionCode) take no signal and their loops test nothing but
\* videoIds.length < limit, so the wish reaches no state the run reads
RequestAbort ==
    /\ run.fn \in {"fetchYouTubeData", "fetchTrendingVideos"}
    /\ run.pc \in {"playlistPage", "searchPage", "uploadsPage", "channelVideosSearch",
                   "trendingPage"}
    /\ page.abortAt = -1
    /\ page' = [page EXCEPT !.abortAt = Len(reqs)]
    /\ UNCHANGED <<lsSaved, ui, wanted, today, now, lsDate, lsQuota, lsCache, lastOp, charged, sess, putLog, run,
                   reqs, tasks, before, calc>>

PageWalkLimits == {10, 100}

NextPage ==
    \/ TriggerAnalyze(SampleQueries, PageLimits)
    \/ TriggerTrending(PageWalkLimits)
    \/ RequestAbort
    \/ TriggerCompare
    \/ RunStep
    \/ BenchStep

SpecPage == InitPage /\ [][NextPage]_vars

RunFailed == run.fn # "none" /\ run.pc = "done" /\ run.outcome # "ok"

(* C12: when a run has failed, the result obtained before it is still shown *)
(* unchanged, and every cache entry that existed when the run was triggered *)
(* is still there unchanged.                                                *)
C12_FailedRunLeavesResults ==
    RunFailed =>
        /\ page.data = before.data
        /\ page.result = before.result
        /\ \A k \in DOMAIN before.cache :
               k \in DOMAIN lsCache /\ lsCache[k] = before.cache[k]

RECURSIVE SumOfCharges(_)
SumOfCharges(log) ==
    IF log = <<>> THEN 0 ELSE Head(log).charge + SumOfCharges(Tail(log))

(* C13: once its caller has asked to abort a run, which is checked before   *)
(* each page request, the run issues no further page request and makes no   *)
(* further quota charge.                                                    *)
C13_NoPageAfterAbort ==
    page.abortAt >= 0 =>
        /\ \A i \in At(PageSites) : i <= page.abortAt
        /\ ParseInt(lsQuota) = SumOfCharges(SubSeq(reqs, 1, page.abortAt))

(***************************************************************************)
(* Performance scores (performanceScoreService) and where they are shown:  *)
(* the Title Score page and the PDF report.  A video is what the scores    *)
(* read of it: viewCountRaw, likeCountRaw, engagementRate (in hundredths), *)
(* text (analyzeTitleScore(title).totalScore) and days (daysSincePublish). *)
(* Math.round is taken on exact fractions, half up.                        *)
(***************************************************************************)
MaxVideos == 3

\* Math.round(a / b) for a >= 0, b > 0
RoundDiv(a, b) == (2 * a + b) \div (2 * b)

\* [...allValues].sort((a, b) => a - b).findIndex(v => v >= value), zero-based
\* and -1 when there is none: in the ascending order exactly the values below value come before the first one
\* that is >= value
SortedFindIndexAtLeast(allValues, value) ==
    IF \E k \in 1..Len(allValues) : allValues[k] >= value
    THEN Cardinality({k \in 1..Len(allValues) : allValues[k] < value})
    ELSE -1

\* a plausible slip: the share of the values from the found one upwards
GetPercentileFromTop(value, allValues) ==
    IF Len(allValues) = 0 THEN 50
    ELSE LET index == SortedFindIndexAtLeast(allValues, value)
         IN  IF index = -1 THEN 100
             ELSE RoundDiv((Len(allValues) - index) * 100, Len(allValues))

GetPercentile(value, allValues) ==
    IF Len(allValues) = 0 THEN 50
    ELSE LET index == SortedFindIndexAtLeast(allValues, value)
         IN  IF index = -1 THEN 100 ELSE RoundDiv(index * 100, Len(allValues))

\* performanceScoreService's getGrade
GetGrade(score) ==
    IF score >= 80 THEN "A"
    ELSE IF score >= 60 THEN "B"
    ELSE IF score >= 40 THEN "C"
    ELSE IF score >= 20 THEN "D"
    ELSE "F"

\* pdfService's own getGrade, applied to the averaged scores of the report
PdfGetGrade(score) ==
    IF score >= 90 THEN "A"
    ELSE IF score >= 75 THEN "B"
    ELSE IF score >= 60 THEN "C"
    ELSE IF score >= 40 THEN "D"
    ELSE "F"

\* calculateRecencyBonus: viewsPerDay = viewCountRaw / daysSincePublish
CalculateRecencyBonus(video) ==
    LET atLeast(perDay) == video.viewCountRaw >= perDay * video.days
    IN  IF atLeast(100000) THEN 100
        ELSE IF atLeast(50000) THEN 90
        ELSE IF atLeast(10000) THEN 80
        ELSE IF atLeast(5000) THEN 70
        ELSE IF atLeast(1000) THEN 60
        ELSE IF atLeast(500) THEN 50
        ELSE IF atLeast(100) THEN 40
        ELSE 30

MapField(videos, f) == [k \in 1..Len(videos) |-> videos[k][f]]

CalculateTitlePerformanceScore(video, allVideos) ==
    LET viewsPercentile == GetPercentile(video.viewCountRaw, MapField(allVideos, "viewCountRaw"))
        likesPercentile == GetPercentile(video.likeCountRaw, MapField(allVideos, "likeCountRaw"))
        erPercentile == GetPercentile(video.engagementRate, MapField(allVideos, "engagementRate"))
        textScore == RoundDiv(video.text * 100, 80)
        totalScore == RoundDiv(viewsPercentile * 35 + likesPercentile * 25
                               + erPercentile * 20 + textScore * 20, 100)
    IN  [totalScore |-> totalScore, grade |-> GetGrade(totalScore),
         viewsPercentile |-> viewsPercentile, likesPercentile |-> likesPercentile,
         erPercentile |-> erPercentile]

CalculateThumbnailPerformanceScore(video, allVideos) ==
    LET viewsPercentile == GetPercentile(video.viewCountRaw, MapField(allVideos, "viewCountRaw"))
        erPercentile == GetPercentile(video.engagementRate, MapField(allVideos, "engagementRate"))
        recencyBonus == CalculateRecencyBonus(video)
        totalScore == RoundDiv(viewsPercentile * 40 + erPercentile * 30 + recencyBonus * 30, 100)
    IN  [totalScore |-> totalScore, grade |-> GetGrade(totalScore),
         viewsPercentile |-> viewsPercentile, likesPercentile |-> 0,
         erPercentile |-> erPercentile]

CalculateAllVideoScores(videos) ==
    [k \in 1..Len(videos) |->
        [video |-> videos[k],
         titleScore |-> CalculateTitlePerformanceScore(videos[k], videos),
         thumbnailScore |-> CalculateThumbnailPerformanceScore(videos[k], videos)]]

\* scored.slice(lo - 1, hi).reduce((sum, v) => sum + v[which].totalScore, 0)
RECURSIVE SumTotalsFrom(_, _, _, _)
SumTotalsFrom(scored, which, lo, hi) ==
    IF lo > hi THEN 0
    ELSE IF lo = hi THEN scored[lo][which].totalScore
    ELSE LET mid == (lo + hi) \div 2
         IN  SumTotalsFrom(scored, which, lo, mid) + SumTotalsFrom(scored, which, mid + 1, hi)

SumTotals(scored, which) == SumTotalsFrom(scored, which, 1, Len(scored))

GetAverageScores(videos) ==
    IF Len(videos) = 0 THEN [avgTitleScore |-> 0, avgThumbnailScore |-> 0]
    ELSE LET scored == CalculateAllVideoScores(videos)
         IN  [avgTitleScore |-> RoundDiv(SumTotals(scored, "titleScore"), Len(scored)),
              avgThumbnailScore |-> RoundDiv(SumTotals(scored, "thumbnailScore"), Len(scored))]

\* const maxVideos = Math.min(data.videos.length, 100)
PDF_MAX_VIDEOS == 100

\* data.videos.slice(0, maxVideos)
VideosForPDF(videos) == SubSeq(videos, 1, Min(Len(videos), PDF_MAX_VIDEOS))

SampleVideos ==
    { [id |-> 0, viewCountRaw |-> 100, likeCountRaw |-> 10, engagementRate |-> 1000,
       text |-> 32, days |-> 1],
      [id |-> 0, viewCountRaw |-> 5000, likeCountRaw |-> 100, engagementRate |-> 200,
       text |-> 60, days |-> 10],
      [id |-> 0, viewCountRaw |-> 200000, likeCountRaw |-> 9000, engagementRate |-> 450,
       text |-> 80, days |-> 2] }

\* the lists of up to n sample videos, each video given its place as id
RECURSIVE ListsUpTo(_)
ListsUpTo(n) ==
    IF n = 0 THEN {<<>>}
    ELSE ListsUpTo(n - 1)
         \cup {Append(l, [v EXCEPT !.id = Len(l) + 1]) : l \in {x \in ListsUpTo(n - 1) : Len(x) = n - 1},
                                                         v \in SampleVideos}

\* a channel with n uploads whose views grow with every upload
GrowingChannel(n) ==
    [k \in 1..n |-> [id |-> k, viewCountRaw |-> 1000 * k, likeCountRaw |-> 10 * k,
                     engagementRate |-> 100 * (k % 7), text |-> 10 * (k % 9), days |-> k]]

Populations ==
    (ListsUpTo(MaxVideos) \ {<<>>})
    \cup {GrowingChannel(PDF_MAX_VIDEOS + 1)}

NoReport == [kind |-> "none"]

InitScore ==
    /\ today = 1
    /\ lsSaved = NoItem
    /\ ui = NoUi
    /\ wanted = {}
    /\ now = 0
    /\ lsDate = ToDateString(today)
    /\ lsQuota = <<"0">>
    /\ lsCache = <<>>
    /\ lastOp = [op |-> "none"]
    /\ charged = 0
    /\ sess = NoSess
    /\ putLog = <<>>
    /\ run = NoRun
    /\ reqs = <<>>
    /\ tasks = <<>>
    /\ page = NoPage
    /\ before = NoSnapshot
    /\ \E videos \in Populations :
           calc = [op |-> "scores", videos |-> videos, screen |-> NoReport, pdf |-> NoReport]

\* <TitleScoreAnalyzer videos={data.videos} />
RenderTitleScores ==
    /\ calc.op = "scores"
    /\ calc.screen = NoReport
    /\ calc' = [calc EXCEPT !.screen =
                   [kind |-> "screen",
                    scoredVideos |-> CalculateAllVideoScores(calc.videos),
                    averages |-> GetAverageScores(calc.videos)]]
    /\ UNCHANGED <<lsSaved, ui, wanted, today, now, lsDate, lsQuota, lsCache, lastOp, charged, sess, putLog, run,
                   reqs, tasks, page, before>>

\* handleExportPDF: generatePDFReport({videos: data.videos, ...})
GeneratePDFReport ==
    /\ calc.op = "scores"
    /\ calc.pdf = NoReport
    /\ LET videosForPDF == VideosForPDF(calc.videos)
           averages == GetAverageScores(videosForPDF)
       IN  calc' = [calc EXCEPT !.pdf =
                       [kind |-> "pdf",
                        scoredVideos |-> CalculateAllVideoScores(videosForPDF),
                        averages |-> averages,
                        titleGrade |-> PdfGetGrade(averages.avgTitleScore),
                        thumbGrade |-> PdfGetGrade(averages.avgThumbnailScore)]]
    /\ UNCHANGED <<lsSaved, ui, wanted, today, now, lsDate, lsQuota, lsCache, lastOp, charged, sess, putLog, run,
                   reqs, tasks, page, before>>

NextScore == RenderTitleScores \/ GeneratePDFReport

SpecScore == InitScore /\ [][NextScore]_vars

Reports == {r \in {calc.screen, calc.pdf} : r # NoReport}

(* C14: every per-video score is computed against the full population, so   *)
(* the same video of the same fetched result has the same title and         *)
(* thumbnail score and grade on the Title Score page and in the PDF report. *)
C14_SameScoreWhereverReported ==
    (calc.op = "scores" /\ calc.screen # NoReport /\ calc.pdf # NoReport) =>
        \A a \in DOMAIN calc.screen.scoredVideos, b \in DOMAIN calc.pdf.scoredVideos :
            calc.screen.scoredVideos[a].video.id = calc.pdf.scoredVideos[b].video.id
                => /\ calc.screen.scoredVideos[a].titleScore = calc.pdf.scoredVideos[b].titleScore
                   /\ calc.screen.scoredVideos[a].thumbnailScore
                          = calc.pdf.scoredVideos[b].thumbnailScore

(* C15: for every comparison set S and every v in S, v's viewsPercentile is *)
(* an integer in 0..100, does not decrease when v.views grows within S, and *)
(* is the same for videos with the same views.                              *)
C15_PercentileBoundedMonotone ==
    calc.op = "scores" =>
        \A r \in Reports :
            \A a \in DOMAIN r.scoredVideos, b \in DOMAIN r.scoredVideos :
                LET va == r.scoredVideos[a]
                    vb == r.scoredVideos[b]
                IN  /\ va.titleScore.viewsPercentile \in 0..100
                    /\ va.thumbnailScore.viewsPercentile = va.titleScore.viewsPercentile
                    /\ va.video.viewCountRaw <= vb.video.viewCountRaw
                           => va.titleScore.viewsPercentile <= vb.titleScore.viewsPercentile
                    /\ va.video.viewCountRaw = vb.video.viewCountRaw
                           => va.titleScore.viewsPercentile = vb.titleScore.viewsPercentile

\* three videos scored, the less viewed one listed last, two of them tied
C15_Witness ==
    /\ calc.op = "scores"
    /\ calc.screen # NoReport
    /\ Len(calc.screen.scoredVideos) = 3
    /\ LET sv == calc.screen.scoredVideos
       IN  /\ sv[1].video.viewCountRaw = sv[2].video.viewCountRaw
           /\ sv[3].video.viewCountRaw < sv[1].video.viewCountRaw
           /\ sv[1].titleScore.viewsPercentile = sv[2].titleScore.viewsPercentile
           /\ sv[3].titleScore.viewsPercentile < sv[1].titleScore.viewsPercentile

\* the shared scale: the grade of the highest threshold the score reaches
GradeOnSharedScale(score) ==
    LET reached == {t \in {80, 60, 40, 20, 0} : score >= t}
        top == CHOOSE t \in reached : \A u \in reached : u <= t
    IN  CASE top = 80 -> "A" [] top = 60 -> "B" [] top = 40 -> "C" [] top = 20 -> "D"
          [] OTHER -> "F"

(* C16: the grade attached to a 0-100 score, per video or averaged in a     *)
(* report, is the one function of the score given by the shared scale       *)
(* >=80 A, >=60 B, >=40 C, >=20 D, else F.                                  *)
C16_OneGradeScale ==
    calc.op = "scores" =>
        /\ \A r \in Reports : \A a \in DOMAIN r.scoredVideos :
               /\ r.scoredVideos[a].titleScore.grade
                      = GradeOnSharedScale(r.scoredVideos[a].titleScore.totalScore)
               /\ r.scoredVideos[a].thumbnailScore.grade
                      = GradeOnSharedScale(r.scoredVideos[a].thumbnailScore.totalScore)
        /\ calc.pdf # NoReport =>
               /\ calc.pdf.titleGrade = GradeOnSharedScale(calc.pdf.averages.avgTitleScore)
               /\ calc.pdf.thumbGrade = GradeOnSharedScale(calc.pdf.averages.avgThumbnailScore)

(***************************************************************************)
(* Normalization: fetchVideoDetails maps each raw upstream item to a       *)
(* VideoItem.  A field of a raw item is Undefined or Some(value).          *)
(***************************************************************************)
Undefined == [kind |-> "undefined"]

Some(x) == [kind |-> "some", value |-> x]

\* what reading a property of undefined does
TypeError(of) == [kind |-> "TypeError", reading |-> of]

\* the longest run of digits s starts with
RECURSIVE TakeDigits(_)
TakeDigits(s) ==
    IF s # <<>> /\ IsDigit(Head(s)) THEN <<Head(s)>> \o TakeDigits(Tail(s)) ELSE <<>>

\* one optional group (\d+U)? of the duration pattern, tried at the head of
\* s: the number parseInt reads of it (0 without a match) and what follows
DurationGroup(s, unit) ==
    LET digits == TakeDigits(s)
    IN  IF digits # <<>> /\ Len(s) > Len(digits) /\ s[Len(digits) + 1] = unit
        THEN [n |-> ParseInt(digits), rest |-> From(s, Len(digits) + 2)]
        ELSE [n |-> 0, rest |-> s]

\* parseDuration: duration.match(/PT(\d+H)?(\d+M)?(\d+S)?/)
ParseDuration(duration) ==
    LET at == IndexOf(duration, <<"P", "T">>)
        h == DurationGroup(From(duration, at + 2), "H")
        m == DurationGroup(h.rest, "M")
        sec == DurationGroup(m.rest, "S")
    IN  IF at = 0 THEN 0 ELSE h.n * 3600 + m.n * 60 + sec.n

\* Number(x || 0) of a count that upstream sends as a string of digits
NumberOrZero(x) == IF x = Undefined THEN 0 ELSE ParseInt(x.value)

\* thumbnails.maxres || thumbnails.high || thumbnails.medium || thumbnails.default
FirstThumbnail(thumbnails) ==
    IF thumbnails.maxres # Undefined THEN thumbnails.maxres
    ELSE IF thumbnails.high # Undefined THEN thumbnails.high
    ELSE IF thumbnails.medium # Undefined THEN thumbnails.medium
    ELSE thumbnails.default

\* the callback of allItems.map in fetchVideoDetails, statement by statement
NormalizeItem(v) ==
    IF v.contentDetails = Undefined THEN TypeError("contentDetails.duration")
    ELSE IF v.contentDetails.value.duration = Undefined THEN TypeError("duration.match")
    ELSE IF v.snippet.thumbnails = Undefined THEN TypeError("thumbnails.maxres")
    ELSE IF v.statistics = Undefined THEN TypeError("statistics.viewCount")
    ELSE LET dur == ParseDuration(v.contentDetails.value.duration.value)
             thumbObj == FirstThumbnail(v.snippet.thumbnails.value)
             views == NumberOrZero(v.statistics.value.viewCount)
             likes == NumberOrZero(v.statistics.value.likeCount)
             comments == NumberOrZero(v.statistics.value.commentCount)
         IN  [kind |-> "video",
              thumbnail |-> IF thumbObj = Undefined THEN "" ELSE thumbObj.value,
              viewCountRaw |-> views,
              likeCountRaw |-> likes,
              commentCountRaw |-> comments,
              \* parseFloat(er.toFixed(2)), in hundredths
              engagementRate |-> IF views > 0 THEN RoundDiv((likes + comments) * 10000, views)
                                 ELSE 0,
              tags |-> IF v.snippet.tags = Undefined THEN "[]" ELSE v.snippet.tags.value,
              publishedAtDate |-> IF v.snippet.publishedAt = "ISO 8601" THEN "Date"
                                  ELSE "Invalid Date",
              publishedTimeAgo |-> IF v.snippet.publishedAt = "ISO 8601" THEN "ago"
                                   ELSE "Baru saja",
              durationSec |-> dur,
              isShort |-> dur <= 60]

SampleDurations ==
    { <<"P", "T", "1", "H", "2", "M", "3", "S">>, <<"P", "T", "4", "5", "S">>,
      <<"P", "1", "D">> }

NoThumbnails ==
    [maxres |-> Undefined, high |-> Undefined, medium |-> Undefined, default |-> Undefined]

RawItems ==
    [contentDetails :
         {Undefined} \cup {Some([duration |-> d]) :
                              d \in {Undefined} \cup {Some(x) : x \in SampleDurations}},
     snippet :
         [thumbnails : {Undefined, Some(NoThumbnails),
                        Some([NoThumbnails EXCEPT !.default = Some("default.jpg")]),
                        Some([NoThumbnails EXCEPT !.maxres = Some("maxres.jpg"),
                                                  !.default = Some("default.jpg")])},
          tags : {Undefined, Some("tags")},
          publishedAt : {"ISO 8601", "not a date"}],
     statistics :
         {Undefined,
          Some([viewCount |-> Undefined, likeCount |-> Undefined, commentCount |-> Undefined]),
          Some([viewCount |-> Some(<<"1", "5", "0">>), likeCount |-> Some(<<"7">>),
                commentCount |-> Undefined])}]

InitNormalize ==
    /\ today = 1
    /\ lsSaved = NoItem
    /\ ui = NoUi
    /\ wanted = {}
    /\ now = 0
    /\ lsDate = ToDateString(today)
    /\ lsQuota = <<"0">>
    /\ lsCache = <<>>
    /\ lastOp = [op |-> "none"]
    /\ charged = 0
    /\ sess = NoSess
    /\ putLog = <<>>
    /\ run = NoRun
    /\ reqs = <<>>
    /\ tasks = <<>>
    /\ page = NoPage
    /\ before = NoSnapshot
    /\ \E v \in RawItems : calc = [op |-> "normalize", item |-> v, out |-> NoReport]

\* return allItems.map((v) => {...})
MapItem ==
    /\ calc.op = "normalize"
    /\ calc.out = NoReport
    /\ calc' = [calc EXCEPT !.out = NormalizeItem(calc.item)]
    /\ UNCHANGED <<lsSaved, ui, wanted, today, now, lsDate, lsQuota, lsCache, lastOp, charged, sess, putLog, run,
                   reqs, tasks, page, before>>

NextNormalize == MapItem

SpecNormalize == InitNormalize /\ [][NextNormalize]_vars

(* C17: normalization never throws: a raw item with missing or malformed    *)
(* fields is mapped to a video record with default values.                  *)
C17_NormalizationNeverThrows ==
    (calc.op = "normalize" /\ calc.out # NoReport) => calc.out.kind = "video"

(***************************************************************************)
(* Upload schedule: the useMemo of UploadScheduleAnalyzer.                 *)
(***************************************************************************)
MaxUploads == 4

DAYS == 0 .. 6

HOURS == 0 .. 23

\* new Date(v.publishedAt) read through getDay() and getHours(): a day and an
\* hour, or NaN twice for a string Date cannot parse
NotANumber == 0 - 1

SampleUploads ==
    { [day |-> 1, hour |-> 9, viewCountRaw |-> 100],
      [day |-> 1, hour |-> 9, viewCountRaw |-> 201],
      [day |-> 3, hour |-> 18, viewCountRaw |-> 50],
      [day |-> 5, hour |-> 20, viewCountRaw |-> 300],
      [day |-> 0, hour |-> 0, viewCountRaw |-> 10],
      [day |-> NotANumber, hour |-> NotANumber, viewCountRaw |-> 70] }

RECURSIVE UploadListsUpTo(_)
UploadListsUpTo(n) ==
    IF n = 0 THEN {<<>>}
    ELSE LET shorter == UploadListsUpTo(n - 1)
         IN  shorter \cup {Append(l, v) : l \in shorter, v \in SampleUploads}

\* the videos the forEach has put in grid[day][hour]
RECURSIVE ViewsIn(_, _, _)
ViewsIn(videos, day, hour) ==
    IF videos = <<>> THEN [count |-> 0, totalViews |-> 0]
    ELSE LET rest == ViewsIn(Tail(videos), day, hour)
             v == Head(videos)
         IN  IF v.day = day /\ v.hour = hour
             THEN [count |-> rest.count + 1, totalViews |-> rest.totalViews + v.viewCountRaw]
             ELSE rest

\* a cell of the grid after the loop that calculates averages
GridCell(videos, day, hour) ==
    LET c == ViewsIn(videos, day, hour)
    IN  [day |-> day, hour |-> hour, count |-> c.count, totalViews |-> c.totalViews,
         avgViews |-> IF c.count > 0 THEN RoundDiv(c.totalViews, c.count) ELSE 0]

\* allCells: the grid row by row, the cells of a row by hour
AllCells(videos) ==
    [k \in 1 .. Cardinality(DAYS) * Cardinality(HOURS) |->
        GridCell(videos, (k - 1) \div Cardinality(HOURS), (k - 1) % Cardinality(HOURS))]

\* allCells.filter(c => c.count > 0), over the cells lo .. hi
RECURSIVE CellsWithUploadsFrom(_, _, _)
CellsWithUploadsFrom(allCells, lo, hi) ==
    IF lo > hi THEN <<>>
    ELSE IF lo = hi THEN (IF allCells[lo].count > 0 THEN <<allCells[lo]>> ELSE <<>>)
    ELSE LET mid == (lo + hi) \div 2
         IN  CellsWithUploadsFrom(allCells, lo, mid)
                 \o CellsWithUploadsFrom(allCells, mid + 1, hi)

CellsWithUploads(allCells) == CellsWithUploadsFrom(allCells, 1, Len(allCells))

\* a cell put into a list sorted by descending avgViews, after its equals
RECURSIVE InsertByViews(_, _)
InsertByViews(sorted, cell) ==
    IF sorted = <<>> THEN <<cell>>
    ELSE IF Head(sorted).avgViews >= cell.avgViews
         THEN <<Head(sorted)>> \o InsertByViews(Tail(sorted), cell)
         ELSE <<cell>> \o sorted

\* [...cells].sort((a, b) => b.avgViews - a.avgViews), which is stable
RECURSIVE SortByViews(_)
SortByViews(cells) ==
    IF cells = <<>> THEN <<>>
    ELSE InsertByViews(SortByViews(SubSeq(cells, 1, Len(cells) - 1)), cells[Len(cells)])

RECURSIVE Reverse(_)
Reverse(s) == IF s = <<>> THEN <<>> ELSE Append(Reverse(Tail(s)), Head(s))

\* slice(0, 3) and slice(-3)
SliceFirst(s, n) == SubSeq(s, 1, Min(n, Len(s)))

SliceLast(s, n) == SubSeq(s, Len(s) - Min(n, Len(s)) + 1, Len(s))

\* the whole computation: grid[NaN] is undefined and reading [NaN] of it throws
UploadSchedule(videos) ==
    IF \E i \in 1 .. Len(videos) : videos[i].day = NotANumber
    THEN TypeError("grid[NaN][NaN]")
    ELSE LET allCells == AllCells(videos)
             sortedByViews == SortByViews(CellsWithUploads(allCells))
         IN  [kind |-> "schedule",
              heatmapData |-> allCells,
              bestSlots |-> SliceFirst(sortedByViews, 3),
              worstSlots |-> Reverse(SliceLast(sortedByViews, 3))]

InitSchedule ==
    /\ today = 1
    /\ lsSaved = NoItem
    /\ ui = NoUi
    /\ wanted = {}
    /\ now = 0
    /\ lsDate = ToDateString(today)
    /\ lsQuota = <<"0">>
    /\ lsCache = <<>>
    /\ lastOp = [op |-> "none"]
    /\ charged = 0
    /\ sess = NoSess
    /\ putLog = <<>>
    /\ run = NoRun
    /\ reqs = <<>>
    /\ tasks = <<>>
    /\ page = NoPage
    /\ before = NoSnapshot
    /\ \E l \in UploadListsUpTo(MaxUploads) :
           calc = [op |-> "schedule", videos |-> l, out |-> NoReport]

RenderSchedule ==
    /\ calc.op = "schedule"
    /\ calc.out = NoReport
    /\ calc' = [calc EXCEPT !.out = UploadSchedule(calc.videos)]
    /\ UNCHANGED <<lsSaved, ui, wanted, today, now, lsDate, lsQuota, lsCache, lastOp, charged, sess, putLog, run,
                   reqs, tasks, page, before>>

NextSchedule == RenderSchedule

SpecSchedule == InitSchedule /\ [][NextSchedule]_vars

Rendered == calc.op = "schedule" /\ calc.out # NoReport

RECURSIVE SumCounts(_, _, _)
SumCounts(cells, lo, hi) ==
    IF lo > hi THEN 0
    ELSE IF lo = hi THEN cells[lo].count
    ELSE LET mid == (lo + hi) \div 2
         IN  SumCounts(cells, lo, mid) + SumCounts(cells, mid + 1, hi)

ParsableUploads(videos) ==
    Cardinality({i \in 1 .. Len(videos) : videos[i].day # NotANumber})

(* C18: the counts of the 7x24 grid sum to the number of videos with a      *)
(* parsable publish date (the others are skipped, the aggregation does not  *)
(* fail), and a cell's avgViews is totalViews/count, or 0 when it is empty. *)
C18_GridCountsParsableVideos ==
    Rendered =>
        /\ calc.out.kind = "schedule"
        /\ SumCounts(calc.out.heatmapData, 1, Len(calc.out.heatmapData))
               = ParsableUploads(calc.videos)
        /\ \A k \in 1 .. Len(calc.out.heatmapData) :
               LET cell == calc.out.heatmapData[k]
               IN  IF cell.count > 0 THEN cell.avgViews * cell.count = cell.totalViews
                   ELSE cell.avgViews = 0

DescendingByViews(cells) ==
    \A i, j \in 1 .. Len(cells) : i < j => cells[i].avgViews >= cells[j].avgViews

(* C19: bestSlots and worstSlots are the first three and the last three of  *)
(* the non-empty cells sorted by descending avgViews, each returned in that *)
(* descending order.                                                        *)
C19_SlotsInSortedOrder ==
    (Rendered /\ calc.out.kind = "schedule") =>
        LET sorted == SortByViews(CellsWithUploads(calc.out.heatmapData))
        IN  /\ calc.out.bestSlots = SliceFirst(sorted, 3)
            /\ calc.out.worstSlots = SliceLast(sorted, 3)
            /\ DescendingByViews(calc.out.bestSlots)
            /\ DescendingByViews(calc.out.worstSlots)

(***************************************************************************)
(* Content gap: analyzeContentGap over the channel's videos and the        *)
(* trending videos of a region.                                            *)
(***************************************************************************)
MaxGapVideos == 2

UpperCase ==
    <<"A", "B", "C", "D", "E", "F", "G", "H", "I", "J", "K", "L", "M",
      "N", "O", "P", "Q", "R", "S", "T", "U", "V", "W", "X", "Y", "Z">>

LowerCase ==
    <<"a", "b", "c", "d", "e", "f", "g", "h", "i", "j", "k", "l", "m",
      "n", "o", "p", "q", "r", "s", "t", "u", "v", "w", "x", "y", "z">>

\* s.toLowerCase()
ToLowerCase(s) ==
    [i \in 1 .. Len(s) |->
        IF \E k \in 1 .. Len(UpperCase) : UpperCase[k] = s[i]
        THEN LowerCase[CHOOSE k \in 1 .. Len(UpperCase) : UpperCase[k] = s[i]]
        ELSE s[i]]

\* s.replace(/[^\w\s]/g, ' ')
PunctuationToSpace(s) ==
    [i \in 1 .. Len(s) |-> IF s[i] \in WordChars \/ s[i] = " " THEN s[i] ELSE " "]

\* s.split(/\s+/).filter(w => w.length > 3)
RECURSIVE LongWords(_)
LongWords(s) ==
    IF s = <<>> THEN <<>>
    ELSE IF Head(s) = " " THEN LongWords(Tail(s))
    ELSE LET w == TakeWhile(s, {" "})
         IN  (IF Len(w) > 3 THEN <<w>> ELSE <<>>) \o LongWords(From(s, Len(w) + 1))

\* the tags of a video that become topics, in order
RECURSIVE TagTopics(_)
TagTopics(tags) ==
    IF tags = <<>> THEN <<>>
    ELSE LET normalizedTag == Trim(ToLowerCase(Head(tags)))
         IN  (IF Len(normalizedTag) > 2 THEN <<normalizedTag>> ELSE <<>>)
                 \o TagTopics(Tail(tags))

\* the two-word phrases of a title, in order
TitlePhrases(title) ==
    LET titleWords == LongWords(PunctuationToSpace(ToLowerCase(title)))
    IN  [i \in 1 .. (IF Len(titleWords) > 0 THEN Len(titleWords) - 1 ELSE 0) |->
            titleWords[i] \o <<" ">> \o titleWords[i + 1]]

\* every topicMap.set of extractTopics, in the order they happen
RECURSIVE TopicsSeen(_)
TopicsSeen(videos) ==
    IF videos = <<>> THEN <<>>
    ELSE TagTopics(Head(videos).tags) \o TitlePhrases(Head(videos).title)
             \o TopicsSeen(Tail(videos))

\* topicMap.set(t, (topicMap.get(t) || 0) + 1) on a map kept as its entries
SetTopic(entries, t) ==
    IF \E i \in 1 .. Len(entries) : entries[i].topic = t
    THEN [i \in 1 .. Len(entries) |->
             IF entries[i].topic = t THEN [entries[i] EXCEPT !.n = @ + 1] ELSE entries[i]]
    ELSE Append(entries, [topic |-> t, n |-> 1])

RECURSIVE TopicMapOf(_)
TopicMapOf(seen) ==
    IF seen = <<>> THEN <<>>
    ELSE SetTopic(TopicMapOf(SubSeq(seen, 1, Len(seen) - 1)), seen[Len(seen)])

ExtractTopics(videos) == TopicMapOf(TopicsSeen(videos))

\* an entry put into a list sorted by descending count, after its equals
RECURSIVE InsertByCount(_, _)
InsertByCount(sorted, e) ==
    IF sorted = <<>> THEN <<e>>
    ELSE IF Head(sorted).n >= e.n THEN <<Head(sorted)>> \o InsertByCount(Tail(sorted), e)
         ELSE <<e>> \o sorted

RECURSIVE SortByCount(_)
SortByCount(entries) ==
    IF entries = <<>> THEN <<>>
    ELSE InsertByCount(SortByCount(SubSeq(entries, 1, Len(entries) - 1)),
                       entries[Len(entries)])

CHANNEL_TOPICS_MAX == 30

TRENDING_TOPICS_MAX == 50

\* Array.from(map.entries()).sort((a, b) => b[1] - a[1]).slice(0, n).map(([topic]) => topic)
TopTopics(entries, n) ==
    LET top == SliceFirst(SortByCount(entries), n)
    IN  [i \in 1 .. Len(top) |-> top[i].topic]

\* Math.round((overlapCount / length) * 100); 0 / 0 is NaN and so is its round
OverlapPercentage(overlapCount, length) ==
    IF length = 0 THEN NotANumber ELSE RoundDiv(overlapCount * 100, length)

\* the videos of trendingVideos whose tags or title include the topic
MatchingVideos(topic, trendingVideos) ==
    {i \in 1 .. Len(trendingVideos) :
        \/ \E t \in 1 .. Len(trendingVideos[i].tags) :
               Includes(ToLowerCase(trendingVideos[i].tags[t]), ToLowerCase(topic))
        \/ Includes(ToLowerCase(trendingVideos[i].title), ToLowerCase(topic))}

RECURSIVE SumViews(_, _)
SumViews(videos, which) ==
    IF which = {} THEN 0
    ELSE LET i == CHOOSE i \in which : TRUE
         IN  videos[i].viewCountRaw + SumViews(videos, which \ {i})

\* Math.round((frequency * 10) + (potential / 10000)), potential being the
\* average views calculateTopicPotential returns, 0 without a matching video
TrendScore(frequency, topic, trendingVideos) ==
    LET matching == MatchingVideos(topic, trendingVideos)
        n == Cardinality(matching)
    IN  IF n = 0 THEN frequency * 10
        ELSE RoundDiv(frequency * 10 * n * 10000 + SumViews(trendingVideos, matching),
                      n * 10000)

\* trendingTopicsMap.get(topic) || 0
Frequency(entries, topic) ==
    IF \E i \in 1 .. Len(entries) : entries[i].topic = topic
    THEN entries[CHOOSE i \in 1 .. Len(entries) : entries[i].topic = topic].n
    ELSE 0

\* trendingTopics.filter(topic => !channelTopicsSet.has(topic))
RECURSIVE MissingTopicsRaw(_, _)
MissingTopicsRaw(trendingTopics, channelTopicsSet) ==
    IF trendingTopics = <<>> THEN <<>>
    ELSE (IF Head(trendingTopics) \in channelTopicsSet THEN <<>> ELSE <<Head(trendingTopics)>>)
             \o MissingTopicsRaw(Tail(trendingTopics), channelTopicsSet)

\* an item put into a list sorted by descending trendScore, after its equals
RECURSIVE InsertByTrendScore(_, _)
InsertByTrendScore(sorted, e) ==
    IF sorted = <<>> THEN <<e>>
    ELSE IF Head(sorted).trendScore >= e.trendScore
         THEN <<Head(sorted)>> \o InsertByTrendScore(Tail(sorted), e)
         ELSE <<e>> \o sorted

RECURSIVE SortByTrendScore(_)
SortByTrendScore(items) ==
    IF items = <<>> THEN <<>>
    ELSE InsertByTrendScore(SortByTrendScore(SubSeq(items, 1, Len(items) - 1)),
                            items[Len(items)])

MISSING_TOPICS_MAX == 15

RECOMMENDATIONS_MAX == 5

\* .sort((a, b) => b.trendScore - a.trendScore).slice(0, 15)
RankMissingUnsorted(scored) == SliceFirst(scored, MISSING_TOPICS_MAX)

RankMissing(scored) == SliceFirst(SortByTrendScore(scored), MISSING_TOPICS_MAX)

AnalyzeContentGap(channelVideos, trendingVideos) ==
    LET trendingTopicsMap == ExtractTopics(trendingVideos)
        channelTopics == TopTopics(ExtractTopics(channelVideos), CHANNEL_TOPICS_MAX)
        trendingTopics == TopTopics(trendingTopicsMap, TRENDING_TOPICS_MAX)
        channelTopicsSet == {channelTopics[i] : i \in 1 .. Len(channelTopics)}
        missingTopicsRaw == MissingTopicsRaw(trendingTopics, channelTopicsSet)
        overlapCount ==
            Cardinality({i \in 1 .. Len(trendingTopics) : trendingTopics[i] \in channelTopicsSet})
        missingTopics ==
            RankMissing([i \in 1 .. Len(missingTopicsRaw) |->
                LET frequency == Frequency(trendingTopicsMap, missingTopicsRaw[i])
                IN  [topic |-> missingTopicsRaw[i],
                     frequency |-> frequency,
                     trendScore |-> TrendScore(frequency, missingTopicsRaw[i], trendingVideos)]])
        top == SliceFirst(missingTopics, RECOMMENDATIONS_MAX)
    IN  [kind |-> "gap",
         missingTopics |-> missingTopics,
         channelTopics |-> channelTopics,
         trendingTopics |-> trendingTopics,
         overlapPercentage |-> OverlapPercentage(overlapCount, Len(trendingTopics)),
         recommendations |->
             [i \in 1 .. Len(top) |-> [topic |-> top[i].topic, frequency |-> top[i].frequency]]]

SampleGapVideos ==
    { [tags |-> << <<"A", "I">>, <<"G", "a", "m", "i", "n", "g">> >>,
       title |-> <<"B", "e", "s", "t", " ", "G", "a", "m", "i", "n", "g", " ",
                   "S", "e", "t", "u", "p", "!">>,
       viewCountRaw |-> 20000],
      [tags |-> << <<" ", "g", "a", "m", "i", "n", "g", " ">> >>,
       title |-> <<"H", "i">>,
       viewCountRaw |-> 5000],
      [tags |-> << <<"M", "u", "s", "i", "c">>, <<"L", "i", "v", "e">> >>,
       title |-> <<"N", "e", "w", " ", "S", "o", "n", "g">>,
       viewCountRaw |-> 900000],
      [tags |-> <<>>, title |-> <<"V", "l", "o", "g">>, viewCountRaw |-> 100] }

\* a video carrying n different tags
TaggedVideo(n) ==
    [tags |-> [i \in 1 .. n |-> <<"t", "a", "g", Digits[(i \div 10) + 1], Digits[(i % 10) + 1]>>],
     title |-> <<"H", "i">>,
     viewCountRaw |-> 30000]

RECURSIVE GapListsUpTo(_)
GapListsUpTo(n) ==
    IF n = 0 THEN {<<>>}
    ELSE LET shorter == GapListsUpTo(n - 1)
         IN  shorter \cup {Append(l, v) : l \in shorter, v \in SampleGapVideos}

\* runAnalysis returns early on an empty channel list; the trending list is
\* whatever fetchTrendingVideos resolved with
InitGap ==
    /\ today = 1
    /\ lsSaved = NoItem
    /\ ui = NoUi
    /\ wanted = {}
    /\ now = 0
    /\ lsDate = ToDateString(today)
    /\ lsQuota = <<"0">>
    /\ lsCache = <<>>
    /\ lastOp = [op |-> "none"]
    /\ charged = 0
    /\ sess = NoSess
    /\ putLog = <<>>
    /\ run = NoRun
    /\ reqs = <<>>
    /\ tasks = <<>>
    /\ page = NoPage
    /\ before = NoSnapshot
    /\ \E c \in GapListsUpTo(MaxGapVideos) \ {<<>>},
          t \in GapListsUpTo(MaxGapVideos)
                    \cup {<<v, TaggedVideo(MISSING_TOPICS_MAX + 2)>> : v \in SampleGapVideos} :
           calc = [op |-> "gap", channelVideos |-> c, trendingVideos |-> t, out |-> NoReport]

RunAnalysis ==
    /\ calc.op = "gap"
    /\ calc.out = NoReport
    /\ calc' = [calc EXCEPT !.out = AnalyzeContentGap(calc.channelVideos, calc.trendingVideos)]
    /\ UNCHANGED <<lsSaved, ui, wanted, today, now, lsDate, lsQuota, lsCache, lastOp, charged, sess, putLog, run,
                   reqs, tasks, page, before>>

NextGap == RunAnalysis

SpecGap == InitGap /\ [][NextGap]_vars

Analyzed == calc.op = "gap" /\ calc.out # NoReport

CoversTrending(out) ==
    \A i \in 1 .. Len(out.trendingTopics) :
        \E j \in 1 .. Len(out.channelTopics) : out.channelTopics[j] = out.trendingTopics[i]

(* C20: overlapPercentage is an integer in [0,100], and it is 100 whenever  *)
(* channelTopics contains every entry of trendingTopics.                    *)
C20_OverlapPercentageBounded ==
    Analyzed =>
        /\ calc.out.overlapPercentage \in 0 .. 100
        /\ CoversTrending(calc.out) => calc.out.overlapPercentage = 100

(* C21: missingTopics holds only topics of the trending top-50 absent from  *)
(* the channel's top-30, in non-increasing trendScore order, at most 15 of  *)
(* them, and the recommendations are its first min(5, length) topics in     *)
(* the same order.                                                          *)
C21_MissingTopicsRanked ==
    Analyzed =>
        LET out == calc.out
            missing == out.missingTopics
        IN  /\ \A i \in 1 .. Len(missing) :
                   /\ \E j \in 1 .. Len(out.trendingTopics) :
                          out.trendingTopics[j] = missing[i].topic
                   /\ \A j \in 1 .. Len(out.channelTopics) :
                          out.channelTopics[j] # missing[i].topic
            /\ \A i, j \in 1 .. Len(missing) :
                   i < j => missing[i].trendScore >= missing[j].trendScore
            /\ Len(missing) <= MISSING_TOPICS_MAX
            /\ Len(out.recommendations) = Min(RECOMMENDATIONS_MAX, Len(missing))
            /\ \A i \in 1 .. Len(out.recommendations) :
                   out.recommendations[i].topic = missing[i].topic

\* more topics are missing than are kept, and more are kept than recommended
C21_Witness ==
    /\ Analyzed
    /\ Len(calc.out.missingTopics) = MISSING_TOPICS_MAX
    /\ Len(calc.out.recommendations) = RECOMMENDATIONS_MAX
    /\ Cardinality({t \in 1 .. Len(calc.out.trendingTopics) :
                        \A j \in 1 .. Len(calc.out.channelTopics) :
                            calc.out.channelTopics[j] # calc.out.trendingTopics[t]})
           > MISSING_TOPICS_MAX
    /\ calc.out.missingTopics[1].trendScore > calc.out.missingTopics[MISSING_TOPICS_MAX].trendScore

(***************************************************************************)
(* Title text score: analyzeTitleScore of titleScoreService, which the     *)
(* performance score and the title page call.  The service's file is not   *)
(* among the sources; its six dimensions and grade thresholds are taken    *)
(* from the specification's description of it.  A title is a sequence of   *)
(* characters, an emoji being one character.                               *)
(***************************************************************************)
MaxTitleWords == 3

EMOJI_GRINNING == "U+1F600"

EmojiChars == {EMOJI_GRINNING}

\* the words of a title: its maximal runs without a space
RECURSIVE TitleWords(_)
TitleWords(s) ==
    IF s = <<>> THEN <<>>
    ELSE IF Head(s) = " " THEN TitleWords(Tail(s))
    ELSE LET w == TakeWhile(s, {" "})
         IN  <<w>> \o TitleWords(From(s, Len(w) + 1))

\* length: 40-60 characters score 15, 30-70 score 10, anything else 5
TitleLengthScore(title) ==
    IF Len(title) >= 40 /\ Len(title) <= 60 THEN 15
    ELSE IF Len(title) >= 30 /\ Len(title) <= 70 THEN 10
    ELSE 5

\* a sample of the curated power words
POWER_WORDS == {<<"a", "m", "a", "z", "i", "n", "g">>, <<"s", "e", "c", "r", "e", "t">>}

\* power words: two or more matches score 20, one 12, none 0
PowerWordScore(title) ==
    LET matches == Cardinality({w \in POWER_WORDS : Includes(ToLowerCase(title), w)})
    IN  IF matches >= 2 THEN 20 ELSE IF matches = 1 THEN 12 ELSE 0

\* numbers: a standalone number token scores 15
NumberScore(title) ==
    LET words == TitleWords(title)
    IN  IF \E i \in 1 .. Len(words) : \A k \in 1 .. Len(words[i]) : IsDigit(words[i][k])
        THEN 15 ELSE 0

INTERROGATIVES ==
    {<<"h", "o", "w">>, <<"w", "h", "a", "t">>, <<"w", "h", "y">>}

\* question format: a question mark scores 10, an interrogative opening 7,
\* otherwise 3
QuestionScore(title) ==
    LET words == TitleWords(title)
    IN  IF \E i \in 1 .. Len(title) : title[i] = "?" THEN 10
        ELSE IF words # <<>> /\ ToLowerCase(words[1]) \in INTERROGATIVES THEN 7
        ELSE 3

\* emoji: one or two score 10, none 3, more than two 5
EmojiScore(title) ==
    LET emojis == Cardinality({i \in 1 .. Len(title) : title[i] \in EmojiChars})
    IN  IF emojis >= 1 /\ emojis <= 2 THEN 10 ELSE IF emojis = 0 THEN 3 ELSE 5

\* a word written in capital letters throughout
IsAllCaps(w) ==
    /\ \E k \in 1 .. Len(w) : \E u \in 1 .. Len(UpperCase) : UpperCase[u] = w[k]
    /\ \A k \in 1 .. Len(w) : \A l \in 1 .. Len(LowerCase) : LowerCase[l] # w[k]

\* capitalization: up to 30% of the words in capitals score 10, none 5,
\* more than 30% score 3
CapitalizationScore(title) ==
    LET words == TitleWords(title)
        caps == Cardinality({i \in 1 .. Len(words) : IsAllCaps(words[i])})
    IN  IF caps = 0 THEN 5
        ELSE IF caps * 100 <= 30 * Len(words) THEN 10
        ELSE 3

\* the grade of a text score on its 0-80 scale: 70 A, 55 B, 40 C, 25 D
TextGradeOnPerformanceScale(score) == GetGrade(score)

TextGrade(score) ==
    IF score >= 70 THEN "A"
    ELSE IF score >= 55 THEN "B"
    ELSE IF score >= 40 THEN "C"
    ELSE IF score >= 25 THEN "D"
    ELSE "F"

AnalyzeTitleScore(title) ==
    LET breakdown ==
            [length |-> TitleLengthScore(title),
             powerWords |-> PowerWordScore(title),
             numbers |-> NumberScore(title),
             question |-> QuestionScore(title),
             emoji |-> EmojiScore(title),
             capitalization |-> CapitalizationScore(title)]
        totalScore == breakdown.length + breakdown.powerWords + breakdown.numbers
                          + breakdown.question + breakdown.emoji + breakdown.capitalization
    IN  [kind |-> "titleScore", totalScore |-> totalScore, grade |-> TextGrade(totalScore),
         breakdown |-> breakdown]

\* "Top 5 AMAZING Tricks" and a grinning face
ScenarioTitle ==
    <<"T", "o", "p", " ", "5", " ", "A", "M", "A", "Z", "I", "N", "G", " ",
      "T", "r", "i", "c", "k", "s", " ", EMOJI_GRINNING>>

SampleTitleWords ==
    { <<"T", "o", "p">>, <<"5">>, <<"A", "M", "A", "Z", "I", "N", "G">>,
      <<"T", "r", "i", "c", "k", "s", "?">>, <<EMOJI_GRINNING>>, <<"H", "o", "w">>,
      <<"S", "e", "c", "r", "e", "t">> }

\* the titles of up to n sample words, a space between two words
RECURSIVE TitlesUpTo(_)
TitlesUpTo(n) ==
    IF n = 1 THEN SampleTitleWords
    ELSE LET shorter == TitlesUpTo(n - 1)
         IN  shorter \cup {t \o <<" ">> \o w : t \in shorter, w \in SampleTitleWords}

InitTitle ==
    /\ today = 1
    /\ lsSaved = NoItem
    /\ ui = NoUi
    /\ wanted = {}
    /\ now = 0
    /\ lsDate = ToDateString(today)
    /\ lsQuota = <<"0">>
    /\ lsCache = <<>>
    /\ lastOp = [op |-> "none"]
    /\ charged = 0
    /\ sess = NoSess
    /\ putLog = <<>>
    /\ run = NoRun
    /\ reqs = <<>>
    /\ tasks = <<>>
    /\ page = NoPage
    /\ before = NoSnapshot
    /\ \E t \in TitlesUpTo(MaxTitleWords) \cup {ScenarioTitle} :
           calc = [op |-> "title", title |-> t, out |-> NoReport]

\* setSelectedResult(analyzeTitleScore(video.title))
SelectTitle ==
    /\ calc.op = "title"
    /\ calc.out = NoReport
    /\ calc' = [calc EXCEPT !.out = AnalyzeTitleScore(calc.title)]
    /\ UNCHANGED <<lsSaved, ui, wanted, today, now, lsDate, lsQuota, lsCache, lastOp, charged, sess, putLog, run,
                   reqs, tasks, page, before>>

NextTitle == SelectTitle

SpecTitle == InitTitle /\ [][NextTitle]_vars

ScenarioScored == calc.op = "title" /\ calc.title = ScenarioTitle /\ calc.out # NoReport

QUERY_PADDED == <<" ">> \o QUERY_KEYWORD \o <<" ">>

CachedQueries == {QUERY_KEYWORD, QUERY_PADDED, QUERY_HANDLE, QUERY_PLAYLIST_URL}

InitCached ==
    /\ today = 1
    /\ lsSaved = NoItem
    /\ ui = NoUi
    /\ wanted = {}
    /\ now \in {CACHE_TTL_MS - 1, CACHE_TTL_MS + 1}
    /\ lsDate = ToDateString(today)
    /\ lsQuota = <<"0">>
    /\ lsCache \in {<<>>} \cup {(CacheKey(QUERY_KEYWORD, 10) :> e) : e \in EarlierEntries}
    /\ lastOp = [op |-> "none"]
    /\ charged = 0
    /\ sess = NoSess
    /\ putLog = <<>>
    /\ run = NoRun
    /\ reqs = <<>>
    /\ tasks = <<>>
    /\ page = NoPage
    /\ before = NoSnapshot
    /\ calc = NoCalc

NextCached ==
    \/ TriggerAnalyze(CachedQueries, Limits)
    \/ TriggerTrending(ResolveLimits)
    \/ RunStep

SpecCached == InitCached /\ [][NextCached]_vars

\* the entry an earlier fetch of the run's query and count left, if it can be
\* parsed and is younger than the TTL
LiveEntryForRun ==
    /\ <<run.query, run.limit>> \in DOMAIN before.cache
    /\ before.cache[<<run.query, run.limit>>].parses
    /\ now - before.cache[<<run.query, run.limit>>].timestamp < CACHE_TTL_MS

\* the cache keys whose entry is new or differs from the one the run found
Written == {k \in DOMAIN lsCache : k \notin DOMAIN before.cache \/ lsCache[k] # before.cache[k]}

(* C23: a keyword, channel or playlist fetch whose trimmed query and count   *)
(* match a live cache entry returns that entry's value, issues no request    *)
(* and charges nothing; a result is returned from the cache only on such a   *)
(* match; and a cache entry is written only by such a fetch, under its own   *)
(* key, once the whole run has succeeded.                                    *)
C23_CacheHitAndWriteLast ==
    /\ (run.fn = "fetchYouTubeData" /\ run.storeFault # "getCache" /\ LiveEntryForRun) =>
           /\ run.pc = "done" /\ run.outcome = "ok" /\ run.mode = "cached"
           /\ run.result = before.cache[<<run.query, run.limit>>].value
    /\ run.mode = "cached" =>
           /\ <<run.query, run.limit>> \in DOMAIN before.cache
           /\ run.result = before.cache[<<run.query, run.limit>>].value
           /\ reqs = <<>>
           /\ lsQuota = <<"0">>
           /\ Written = {}
    /\ (run.fn # "none" /\ Written # {}) =>
           /\ run.fn = "fetchYouTubeData"
           /\ run.pc = "done" /\ run.outcome = "ok"
           /\ Written = {<<run.query, run.limit>>}
           /\ reqs # <<>> /\ \A i \in 1 .. Len(reqs) : Answered(i)
           /\ lsCache[<<run.query, run.limit>>].value = JSONRoundTrip(run.result)

\* a padded keyword query served from the entry of its trimmed form
C23_Witness ==
    /\ run.fn = "fetchYouTubeData"
    /\ run.mode = "cached"
    /\ run.query = QUERY_KEYWORD
    /\ LiveEntryForRun
    /\ reqs = <<>>

\* the requests of the run whose response has not arrived
InFlight == {i \in 1 .. Len(reqs) : ~Answered(i)}

(* C24: within one run at most one upstream request is in flight at any     *)
(* time: a page or batch request is issued only after the previous          *)
(* response has been received.                                              *)
C24_OneRequestInFlight == Cardinality(InFlight) <= 1

\* the list-by-id requests of the run, and how many of them came before one
Batches == At({"detailBatch"})

BatchesBefore(i) == Cardinality({b \in Batches : b < i})

RECURSIVE SumAsked(_)
SumAsked(which) ==
    IF which = {} THEN 0
    ELSE LET i == CHOOSE i \in which : TRUE IN reqs[i].n + SumAsked(which \ {i})

(* C25: hydrating k collected ids issues exactly ceil(k/50) list-by-id       *)
(* requests, each with at most 50 ids and charged 1 unit of its own; batch   *)
(* j carries the ids from position 50(j-1) on, so the batches cover every    *)
(* collected id once, in collection order.                                   *)
C25_DetailBatches ==
    run.fn \in Fetchers =>
        /\ \A i \in Batches :
               /\ reqs[i].ep = "videos" /\ reqs[i].charge = 1
               /\ reqs[i].offset = 50 * BatchesBefore(i)
               /\ reqs[i].n = Min(50, run.videoIds - reqs[i].offset)
               /\ reqs[i].n >= 1
        /\ ParseInt(lsQuota) = SumOfCharges(reqs)
        /\ (run.pc = "done" /\ run.outcome = "ok" /\ run.mode # "cached") =>
               /\ Cardinality(Batches) = (run.videoIds + 49) \div 50
               /\ SumAsked(Batches) = run.videoIds

\* 80 ids hydrated in a batch of 50 and a batch of 30
C25_Witness ==
    /\ run.fn \in Fetchers /\ run.pc = "done" /\ run.outcome = "ok"
    /\ run.videoIds = PAGE_MAX + PartialPage
    /\ Cardinality(Batches) = 2
    /\ \E i \in Batches : reqs[i].n = PartialPage /\ reqs[i].offset = CHUNK_SIZE

(***************************************************************************)
(* Overlapping requests: handleAnalyze and handleTrending are async        *)
(* functions of the page; nothing disables the search bar or the trending  *)
(* buttons while one of them awaits its fetch.  Here `tasks` is the list   *)
(* of their invocations in trigger order, each awaiting its fetch as one   *)
(* promise.                                                                *)
(***************************************************************************)
MaxHandlers == 2

HandlerCalls ==
    {[fn |-> "handleAnalyze", query |-> q] : q \in SampleQueries}
        \cup {[fn |-> "handleTrending", query |-> <<>>]}

\* what the fetch of an invocation resolves with
ResultOf(call) ==
    [kind |-> "data", videos |-> 10, dates |-> "Date", fn |-> call.fn, query |-> call.query]

InitOverlap ==
    /\ today = 1
    /\ lsSaved = NoItem
    /\ ui = NoUi
    /\ wanted = {}
    /\ now = 0
    /\ lsDate = ToDateString(today)
    /\ lsQuota = <<"0">>
    /\ lsCache = <<>>
    /\ lastOp = [op |-> "none"]
    /\ charged = 0
    /\ sess = NoSess
    /\ putLog = <<>>
    /\ run = NoRun
    /\ reqs = <<>>
    /\ tasks = <<>>
    /\ page = NoPage
    /\ before = NoSnapshot
    /\ calc = NoCalc

\* setLoading(true); try { const result = await fetch...(...)
TriggerHandler ==
    /\ Len(tasks) < MaxHandlers
    /\ \E c \in HandlerCalls :
           tasks' = Append(tasks, [call |-> c, pc |-> "awaiting", outcome |-> "pending"])
    /\ UNCHANGED <<lsSaved, ui, wanted, today, now, lsDate, lsQuota, lsCache, lastOp, charged, sess, putLog, run,
                   reqs, page, before, calc>>

\* ... setData(result); ... } catch (err) { showToast(...) } finally { setLoading(false) }
HandlerSettles ==
    \E i \in 1 .. Len(tasks), o \in {"ok", "error"} :
        /\ tasks[i].pc = "awaiting"
        /\ tasks' = [tasks EXCEPT ![i].pc = "done", ![i].outcome = o]
        /\ page' = IF o = "ok" THEN [page EXCEPT !.data = ResultOf(tasks[i].call)] ELSE page
        /\ UNCHANGED <<lsSaved, ui, wanted, today, now, lsDate, lsQuota, lsCache, lastOp, charged, sess, putLog,
                       run, reqs, before, calc>>

NextOverlap == TriggerHandler \/ HandlerSettles

SpecOverlap == InitOverlap /\ [][NextOverlap]_vars

(* C26: when a second analyze or trending request was triggered while an    *)
(* earlier one was in flight and both have completed, the result shown is   *)
(* the one of the request triggered last, whichever response came last.     *)
C26_LatestRequestWins ==
    (/\ Len(tasks) >= 2
     /\ \A i \in 1 .. Len(tasks) : tasks[i].pc = "done"
     /\ tasks[Len(tasks)].outcome = "ok")
    => page.data = ResultOf(tasks[Len(tasks)].call)

(***************************************************************************)
(* The id walks under an upstream that may send pages whose items carry    *)
(* no video id.                                                            *)
(***************************************************************************)
MaxPages == 11

WalkSites == {"playlistPage", "searchPage", "uploadsPage", "channelVideosSearch", "trendingPage"}

PageRequests == {i \in 1 .. Len(reqs) : reqs[i].site \in WalkSites}

\* the answer to a page request of the walk at site is a page without ids
IdLessPageArrives(ep, site, cost) ==
    /\ run.pc = site
    /\ Cardinality(PageRequests) < MaxPages
    /\ \E resp \in IdLessPages(reqs[Len(reqs)].n), w \in WriteOutcomes :
           Commit(PageResponse(Answer(Bundle, resp), resp, ep, site, cost, w))

IdLessPlaylistPage == IdLessPageArrives("playlistItems", "playlistPage", COST_LIST)

IdLessSearchPage == IdLessPageArrives("search", "searchPage", COST_SEARCH)

IdLessUploadsPage == IdLessPageArrives("playlistItems", "uploadsPage", COST_LIST)

IdLessChannelVideosSearch == IdLessPageArrives("search", "channelVideosSearch", COST_SEARCH)

IdLessTrendingPage == IdLessPageArrives("videos", "trendingPage", COST_LIST)

NextWalk ==
    \/ TriggerAnalyze(SampleQueries, ResolveLimits)
    \/ TriggerTrending(ResolveLimits)
    \/ RunStep
    \/ IdLessPlaylistPage
    \/ IdLessSearchPage
    \/ IdLessUploadsPage
    \/ IdLessChannelVideosSearch
    \/ IdLessTrendingPage

SpecWalk == Init /\ [][NextWalk]_vars

(* C27: whatever the upstream answers, pages without video ids and with a   *)
(* cursor included, the id walk of a run asking for N items issues at most  *)
(* N page requests.                                                        *)
C27_WalkBoundedByN ==
    run.fn \in Fetchers => Cardinality(PageRequests) <= run.limit

(* C28: with an upstream that sends at most the page size asked for, a run  *)
(* asking for N items never holds more than N collected ids, never more     *)
(* than N hydrated videos, and returns at most N videos.                    *)
C28_AtMostNVideos ==
    run.fn \in Fetchers =>
        /\ run.videoIds <= run.limit
        /\ run.allItems <= run.limit
        /\ run.outcome = "ok" => run.result.videos <= run.limit

\* a run that filled its N = 100 from two full pages and returned them
C28_Witness ==
    /\ run.fn \in Fetchers
    /\ run.pc = "done"
    /\ run.outcome = "ok"
    /\ run.limit = 100
    /\ Cardinality(PageRequests) = 2
    /\ run.videoIds = run.limit
    /\ run.result.videos = run.limit

(***************************************************************************)
(* The video list of YouTubeAnalyzer: saved videos and batch selection.    *)
(* A session is a browser tab showing the page; the sessions share         *)
(* localStorage.  Every handler runs to its end without interruption.      *)
(***************************************************************************)
V1 == [id |-> "v1", viewCountRaw |-> 2000000, isShort |-> FALSE]
V2 == [id |-> "v2", viewCountRaw |-> 500, isShort |-> TRUE]
V3 == [id |-> "v3", viewCountRaw |-> 6000000, isShort |-> FALSE]

\* the options of the Min Views select and of the content type buttons
MinViewsOptions == {0, 1000000, 5000000, 10000000}
ContentTypeFilters == {"all", "long", "shorts"}

IdsOf(videos) == {videos[i].id : i \in 1 .. Len(videos)}

\* [...result].sort((a, b) => b.viewCountRaw - a.viewCountRaw)
RECURSIVE SortPopular(_)
SortPopular(videos) ==
    IF videos = <<>> THEN <<>>
    ELSE LET top == CHOOSE i \in 1 .. Len(videos) :
                        /\ \A j \in 1 .. Len(videos) : videos[j].viewCountRaw <= videos[i].viewCountRaw
                        /\ \A j \in 1 .. i - 1 : videos[j].viewCountRaw < videos[i].viewCountRaw
         IN  <<videos[top]>>
                 \o SortPopular([k \in 1 .. Len(videos) - 1 |->
                                    IF k < top THEN videos[k] ELSE videos[k + 1]])

\* the useMemo filteredVideos, with minLikes, durationRange, dateRange,
\* minER and titleKeyword at their initial values, under which they match
\* every video, and sortOption at 'popular'
FilteredVideos(u) ==
    LET source == IF u.mode = "saved" THEN u.savedVideos ELSE u.data
        Match(v) ==
            /\ v.viewCountRaw >= u.minViews
            /\ u.contentType = "shorts" => v.isShort
            /\ u.contentType = "long" => ~v.isShort
    IN  SortPopular(SelectSeq(source, Match))

\* the first render and its effect: const saved = localStorage.getItem(
\* 'yt_saved_videos'); if (saved) try { setSavedVideos(JSON.parse(saved)) }
Mount(s) ==
    /\ ~ui[s].mounted
    /\ ui' = [ui EXCEPT ![s] =
                 [mounted |-> TRUE, data |-> <<>>,
                  savedVideos |-> IF lsSaved = NoItem THEN <<>> ELSE lsSaved.videos,
                  mode |-> "dashboard", contentType |-> "all", minViews |-> 0,
                  selectedVideos |-> {}, isSelectMode |-> FALSE]]
    /\ UNCHANGED <<today, now, lsDate, lsQuota, lsCache, lastOp, charged, sess, putLog, run,
                   reqs, tasks, page, before, calc, lsSaved, wanted>>

\* handleAnalyze / handleTrending after their fetch: setData(result);
\* setMode(...); setContentType('all')
NewFetch(s, Lists) ==
    /\ ui[s].mounted
    /\ \E videos \in Lists :
           ui' = [ui EXCEPT ![s].data = videos, ![s].mode = "dashboard",
                            ![s].contentType = "all"]
    /\ UNCHANGED <<today, now, lsDate, lsQuota, lsCache, lastOp, charged, sess, putLog, run,
                   reqs, tasks, page, before, calc, lsSaved, wanted>>

\* onModeChange: setMode(m); if (m === 'dashboard') { setData(null); ... }
SetMode(s) ==
    /\ ui[s].mounted
    /\ \E m \in {"dashboard", "saved"} :
           ui' = IF m = "dashboard"
                 THEN [ui EXCEPT ![s].mode = m, ![s].data = <<>>, ![s].contentType = "all"]
                 ELSE [ui EXCEPT ![s].mode = m]
    /\ UNCHANGED <<today, now, lsDate, lsQuota, lsCache, lastOp, charged, sess, putLog, run,
                   reqs, tasks, page, before, calc, lsSaved, wanted>>

\* onChange of the Min Views select
SetMinViews(s) ==
    /\ ui[s].mounted
    /\ \E o \in MinViewsOptions : ui' = [ui EXCEPT ![s].minViews = o]
    /\ UNCHANGED <<today, now, lsDate, lsQuota, lsCache, lastOp, charged, sess, putLog, run,
                   reqs, tasks, page, before, calc, lsSaved, wanted>>

\* onClick of a content type button
SetContentType(s) ==
    /\ ui[s].mounted
    /\ \E f \in ContentTypeFilters : ui' = [ui EXCEPT ![s].contentType = f]
    /\ UNCHANGED <<today, now, lsDate, lsQuota, lsCache, lastOp, charged, sess, putLog, run,
                   reqs, tasks, page, before, calc, lsSaved, wanted>>

\* the Batch Select toggle: setIsSelectMode(!isSelectMode);
\* if (isSelectMode) setSelectedVideos(new Set())
ToggleSelectMode(s) ==
    /\ ui[s].mounted
    /\ ui' = [ui EXCEPT ![s].isSelectMode = ~@,
                        ![s].selectedVideos = IF ui[s].isSelectMode THEN {} ELSE @]
    /\ UNCHANGED <<today, now, lsDate, lsQuota, lsCache, lastOp, charged, sess, putLog, run,
                   reqs, tasks, page, before, calc, lsSaved, wanted>>

\* the checkbox of a card of the list, shown in select mode
HandleSelectVideo(s) ==
    /\ ui[s].mounted
    /\ ui[s].isSelectMode
    /\ \E videoId \in IdsOf(FilteredVideos(ui[s])) :
           ui' = [ui EXCEPT ![s].selectedVideos =
                      IF videoId \in @ THEN @ \ {videoId} ELSE @ \cup {videoId}]
    /\ UNCHANGED <<today, now, lsDate, lsQuota, lsCache, lastOp, charged, sess, putLog, run,
                   reqs, tasks, page, before, calc, lsSaved, wanted>>

\* if (selectedVideos.size === filteredVideos.length) new Set()
\* else new Set(filteredVideos.map(v => v.id))
SelectAll(u) ==
    IF Cardinality(u.selectedVideos) = Len(FilteredVideos(u)) THEN {}
    ELSE IdsOf(FilteredVideos(u))

\* the Select All checkbox, shown in select mode over a non-empty list
HandleSelectAll(s) ==
    /\ ui[s].mounted
    /\ ui[s].isSelectMode
    /\ FilteredVideos(ui[s]) # <<>>
    /\ ui' = [ui EXCEPT ![s].selectedVideos = SelectAll(ui[s])]
    /\ UNCHANGED <<today, now, lsDate, lsQuota, lsCache, lastOp, charged, sess, putLog, run,
                   reqs, tasks, page, before, calc, lsSaved, wanted>>

\* filteredVideos.filter(v => selectedVideos.has(v.id)): what every batch
\* action operates on
SelectedList(u) ==
    LET Has(v) == v.id \in u.selectedVideos IN SelectSeq(FilteredVideos(u), Has)

\* localStorage.setItem('yt_saved_videos', JSON.stringify(list)), which
\* throws when the storage is full
SetSaved(list, w) == IF w = "full" THEN lsSaved ELSE [kind |-> "json", videos |-> list]

\* the batch bar, shown in select mode with a non-empty selection
HandleBatchSave(s) ==
    /\ ui[s].mounted
    /\ ui[s].isSelectMode
    /\ ui[s].selectedVideos # {}
    /\ \E w \in WriteOutcomes :
           LET videosToSave == SelectedList(ui[s])
               existing == IdsOf(ui[s].savedVideos)
               IsNew(v) == v.id \notin existing
               newVideos == SelectSeq(videosToSave, IsNew)
               updated == newVideos \o ui[s].savedVideos
           IN  /\ lsSaved' = SetSaved(updated, w)
               /\ ui' = IF w = "full"
                        THEN [ui EXCEPT ![s].savedVideos = updated]
                        ELSE [ui EXCEPT ![s].savedVideos = updated,
                                        ![s].selectedVideos = {},
                                        ![s].isSelectMode = FALSE]
               /\ wanted' = wanted \cup IdsOf(videosToSave)
    /\ UNCHANGED <<today, now, lsDate, lsQuota, lsCache, lastOp, charged, sess, putLog, run,
                   reqs, tasks, page, before, calc>>

\* the save button of a card of the list
HandleSaveToggle(s) ==
    /\ ui[s].mounted
    /\ \E i \in 1 .. Len(FilteredVideos(ui[s])), w \in WriteOutcomes :
           LET video == FilteredVideos(ui[s])[i]
               exists == video.id \in IdsOf(ui[s].savedVideos)
               Other(sv) == sv.id # video.id
               next == IF exists THEN SelectSeq(ui[s].savedVideos, Other)
                       ELSE <<video>> \o ui[s].savedVideos
           IN  /\ lsSaved' = SetSaved(next, w)
               /\ ui' = [ui EXCEPT ![s].savedVideos = next]
               /\ wanted' = IF exists THEN wanted \ {video.id} ELSE wanted \cup {video.id}
    /\ UNCHANGED <<today, now, lsDate, lsQuota, lsCache, lastOp, charged, sess, putLog, run,
                   reqs, tasks, page, before, calc>>

\* no session has rendered the page and nothing was ever saved
InitVideoList ==
    /\ today = 1
    /\ lsSaved = NoItem
    /\ ui = NoUi
    /\ wanted = {}
    /\ now = 0
    /\ lsDate = ToDateString(today)
    /\ lsQuota = <<"0">>
    /\ lsCache = <<>>
    /\ lastOp = [op |-> "none"]
    /\ charged = 0
    /\ sess = NoSess
    /\ putLog = <<>>
    /\ run = NoRun
    /\ reqs = <<>>
    /\ tasks = <<>>
    /\ page = NoPage
    /\ before = NoSnapshot
    /\ calc = NoCalc

\* what a fetch can put on the page of a session
SavedLists == {<<V1, V3>>}
SelectLists == {<<V1, V2, V3>>, <<V2, V3>>}

NextSaved ==
    \E s \in Sessions :
        \/ Mount(s)
        \/ NewFetch(s, SavedLists)
        \/ ToggleSelectMode(s)
        \/ HandleSelectVideo(s)
        \/ HandleBatchSave(s)
        \/ HandleSaveToggle(s)

SpecSaved == InitVideoList /\ [][NextSaved]_vars

NextSelect ==
    \/ Mount(1)
    \/ NewFetch(1, SelectLists)
    \/ SetMode(1)
    \/ SetMinViews(1)
    \/ SetContentType(1)
    \/ ToggleSelectMode(1)
    \/ HandleSelectVideo(1)
    \/ HandleSelectAll(1)
    \/ HandleBatchSave(1)

SpecSelect == InitVideoList /\ [][NextSelect]_vars

\* the list under 'yt_saved_videos', empty when the key was never written
Persisted == IF lsSaved = NoItem THEN <<>> ELSE lsSaved.videos

(* C29: after any interleaving of save, unsave and batch-save operations of *)
(* the sessions sharing the store, the persisted saved-video list holds     *)
(* exactly the videos saved and not unsaved since, each at most once.       *)
C29_PersistedIsWanted ==
    /\ IdsOf(Persisted) = wanted
    /\ \A i, j \in 1 .. Len(Persisted) : Persisted[i].id = Persisted[j].id => i = j

(* C30: after any sequence of select, select-all, filter-change and         *)
(* new-fetch operations every selected id belongs to the filtered list, so  *)
(* the selected count is the number of videos a batch action operates on.   *)
C30_SelectionWithinFiltered ==
    ui[1].mounted =>
        /\ ui[1].selectedVideos \subseteq IdsOf(FilteredVideos(ui[1]))
        /\ Cardinality(ui[1].selectedVideos) = Len(SelectedList(ui[1]))

====
